---- MODULE Spec2Model ----
(***************************************************************************)
(* The retrieval-and-scheduling core of bible-companion-bot: the KJV index *)
(* and topic catalog of src/verses.js, the selector getVersesForUser with  *)
(* its same-day anti-repeat policy, and the subscriber directory and       *)
(* sent-verse ledger of src/storage.js.                                    *)
(*                                                                         *)
(* JavaScript strings are modelled as sequences of one-character strings,  *)
(* so that lower-casing, whitespace stripping, splitting and substring     *)
(* search are computed, not assumed.                                       *)
(***************************************************************************)
EXTENDS Integers, Sequences, FiniteSets, Bags, TLC

(***************************************************************************)
(* String literals used by the program or by the inputs of the model.      *)
(***************************************************************************)
s_encouragement == <<"e", "n", "c", "o", "u", "r", "a", "g", "e", "m", "e", "n", "t">>
s_faith == <<"f", "a", "i", "t", "h">>
s_joy == <<"j", "o", "y">>
s_peace == <<"p", "e", "a", "c", "e">>
s_hope == <<"h", "o", "p", "e">>
s_xyzxyz == <<"x", "y", "z", "x", "y", "z">>
s_constructor == <<"c", "o", "n", "s", "t", "r", "u", "c", "t", "o", "r">>
s_proto == <<"_", "_", "p", "r", "o", "t", "o", "_", "_">>

s_hopefaith == <<"h", "o", "p", "e", " ", "f", "a", "i", "t", "h">>
s_feelanxious == <<"I", " ", "f", "e", "e", "l", " ", "A", "N", "X", "I", "O", "U", "S", " ", "t", "o", "d", "a", "y">>

n_morning == <<"m", "o", "r", "n", "i", "n", "g">>
n_midday == <<"m", "i", "d", "d", "a", "y">>
n_afternoon == <<"a", "f", "t", "e", "r", "n", "o", "o", "n">>
n_evening == <<"e", "v", "e", "n", "i", "n", "g">>
n_Morning == <<"M", "o", "r", "n", "i", "n", "g">>

h_0730 == <<"0", "7", ":", "3", "0">>
h_1200 == <<"1", "2", ":", "0", "0">>
h_1630 == <<"1", "6", ":", "3", "0">>
h_2100 == <<"2", "1", ":", "0", "0">>
h_800 == <<"8", ":", "0", "0">>

w_anxi == <<"a", "n", "x", "i">>
w_faith == <<"f", "a", "i", "t", "h">>
w_anxious == <<"a", "n", "x", "i", "o", "u", "s">>

k_Hebrews111 == <<"H", "e", "b", "r", "e", "w", "s", ".", "1", "1", ".", "1">>
k_1John48 == <<"1", "J", "o", "h", "n", ".", "4", ".", "8">>
k_Romans117 == <<"R", "o", "m", "a", "n", "s", ".", "1", ".", "1", "7">>
k_Hebrews == <<"H", "e", "b", "r", "e", "w", "s">>

b_Romans == <<"R", "o", "m", "a", "n", "s">>
b_Hebrews == <<"H", "e", "b", "r", "e", "w", "s">>
b_James == <<"J", "a", "m", "e", "s">>
b_1John == <<"1", " ", "J", "o", "h", "n">>
b_Revelation == <<"R", "e", "v", "e", "l", "a", "t", "i", "o", "n">>

t_Rom117 == <<"T", "h", "e", " ", "j", "u", "s", "t", " ", "s", "h", "a", "l", "l", " ", "l", "i", "v", "e", " ", "b", "y", " ", "f", "a", "i", "t", "h", ".">>
t_Heb111 == <<"F", "a", "i", "t", "h", " ", "i", "s", " ", "t", "h", "e", " ", "s", "u", "b", "s", "t", "a", "n", "c", "e", " ", "o", "f", " ", "t", "h", "i", "n", "g", "s", " ", "h", "o", "p", "e", "d", " ", "f", "o", "r", ".">>
t_Jas226 == <<"F", "a", "i", "t", "h", " ", "w", "i", "t", "h", "o", "u", "t", " ", "w", "o", "r", "k", "s", " ", "i", "s", " ", "d", "e", "a", "d", ".">>
t_1Jn48 == <<" ", "G", "o", "d", " ", "i", "s", " ", "l", "o", "v", "e", ".", " ">>


\* the verses and the queries of SpecSearch
b_Isaiah == <<"I", "s", "a", "i", "a", "h">>
t_BeStrong == <<"B", "e", " ", "s", "t", "r", "o", "n", "g", ".">>
t_FearNotBeStrong == <<"F", "e", "a", "r", " ", "n", "o", "t", ",", " ", "b", "e", " ", "s", "t", "r", "o", "n", "g", ".">>
t_FearNotFearNot == <<"F", "e", "a", "r", " ", "n", "o", "t", ",", " ", "f", "e", "a", "r", " ", "n", "o", "t", ".">>
t_StrongAndFearNot == <<"B", "e", " ", "s", "t", "r", "o", "n", "g", " ", "a", "n", "d", " ", "f", "e", "a", "r", " ", "n", "o", "t", ".">>
q_fearnotbestrong == <<"f", "e", "a", "r", " ", "n", "o", "t", " ", "b", "e", " ", "s", "t", "r", "o", "n", "g">>
q_fearstrong == <<"f", "e", "a", "r", " ", "s", "t", "r", "o", "n", "g">>
q_fearfearstrong == <<"f", "e", "a", "r", " ", "f", "e", "a", "r", " ", "s", "t", "r", "o", "n", "g">>
q_notbe == <<"n", "o", "t", " ", "b", "e">>
q_Fear == <<"F", "E", "A", "R", "!">>


\* book names, a key, a keyword and a text of SpecLookup
b_1JohnTight == <<"1", "J", "o", "h", "n">>
b_1JohnWide == <<" ", "1", " ", " ", "J", "o", "h", "n">>
k_1_John48 == <<"1", " ", "J", "o", "h", "n", ".", "4", ".", "8">>
w_23 == <<"2", "3">>
d_anxious23 == <<"A", "n", "x", "i", "o", "u", "s", "?", " ", "P", "s", "a", "l", "m", " ", "2", "3">>

t_Rom55 == <<"H", "o", "p", "e", " ", "m", "a", "k", "e", "t", "h", " ", "n", "o", "t", " ", "a", "s", "h", "a", "m", "e", "d", ".">>
t_1Cor1313 == <<"N", "o", "w", " ", "a", "b", "i", "d", "e", "t", "h", " ", "f", "a", "i", "t", "h", ",", " ", "h", "o", "p", "e", ",", " ", "c", "h", "a", "r", "i", "t", "y", ".">>

(***************************************************************************)
(* JavaScript string primitives.                                           *)
(***************************************************************************)
UpperAlpha == <<"A", "B", "C", "D", "E", "F", "G", "H", "I", "J", "K", "L", "M", "N", "O", "P", "Q", "R", "S", "T", "U", "V", "W", "X", "Y", "Z">>
LowerAlpha == <<"a", "b", "c", "d", "e", "f", "g", "h", "i", "j", "k", "l", "m", "n", "o", "p", "q", "r", "s", "t", "u", "v", "w", "x", "y", "z">>
Letters == {LowerAlpha[i] : i \in 1..Len(LowerAlpha)}
Digits == <<"0", "1", "2", "3", "4", "5", "6", "7", "8", "9">>

\* \s of a JavaScript regular expression (the characters the inputs use)
IsSpace(c) == c \in {" ", "\t", "\n"}

\* String.prototype.toLowerCase
LowerMap ==
  [c \in {UpperAlpha[i] : i \in 1..Len(UpperAlpha)} |->
     LowerAlpha[CHOOSE i \in 1..Len(UpperAlpha) : UpperAlpha[i] = c]]
LowerChar(c) == IF c \in DOMAIN LowerMap THEN LowerMap[c] ELSE c
toLowerCase(s) == [i \in 1..Len(s) |-> LowerChar(s[i])]

\* s.replace(/\s+/g, '')
StripSpaces(s) == SelectSeq(s, LAMBDA c : ~IsSpace(c))

\* s.replace(/[^a-z\s]/g, '')
StripNonLetters(s) == SelectSeq(s, LAMBDA c : c \in Letters \/ IsSpace(c))

\* String.prototype.trim
RECURSIVE TrimLeft(_)
TrimLeft(s) ==
  IF s # <<>> /\ IsSpace(Head(s)) THEN TrimLeft(Tail(s)) ELSE s
RECURSIVE TrimRight(_)
TrimRight(s) ==
  IF s # <<>> /\ IsSpace(s[Len(s)]) THEN TrimRight(SubSeq(s, 1, Len(s) - 1)) ELSE s
Trim(s) == TrimRight(TrimLeft(s))

\* s.split(/\s+/): the pieces between maximal runs of whitespace; a leading
\* or trailing run leaves an empty first or last piece.
RECURSIVE SplitFrom(_, _, _, _)
SplitFrom(s, i, cur, acc) ==
  IF i > Len(s) THEN Append(acc, cur)
  ELSE IF IsSpace(s[i])
       THEN IF i > 1 /\ IsSpace(s[i - 1])
            THEN SplitFrom(s, i + 1, cur, acc)
            ELSE SplitFrom(s, i + 1, <<>>, Append(acc, cur))
       ELSE SplitFrom(s, i + 1, Append(cur, s[i]), acc)
SplitSpaces(s) == SplitFrom(s, 1, <<>>, <<>>)

\* String.prototype.includes
Includes(s, w) ==
  \E i \in 0..(Len(s) - Len(w)) : SubSeq(s, i + 1, i + Len(w)) = w

\* `${n}` of a non-negative integer
RECURSIVE NumStr(_)
NumStr(n) ==
  IF n < 10 THEN <<Digits[n + 1]>> ELSE NumStr(n \div 10) \o <<Digits[(n % 10) + 1]>>

Min(a, b) == IF a <= b THEN a ELSE b

\* The refs of a list of { ref, text } objects
RefsOf(vs) == {vs[i].ref : i \in 1..Len(vs)}

STOPWORDS ==
  { <<"t", "h", "e">>, <<"a">>, <<"a", "n">>, <<"i", "s">>,
    <<"a", "r", "e">>, <<"w", "a", "s">>, <<"w", "e", "r", "e">>, <<"b", "e">>,
    <<"b", "e", "e", "n">>, <<"b", "e", "i", "n", "g">>, <<"h", "a", "v", "e">>, <<"h", "a", "s">>,
    <<"h", "a", "d">>, <<"d", "o">>, <<"d", "o", "e", "s">>, <<"d", "i", "d">>,
    <<"w", "i", "l", "l">>, <<"w", "o", "u", "l", "d">>, <<"c", "o", "u", "l", "d">>, <<"s", "h", "o", "u", "l", "d">>,
    <<"m", "a", "y">>, <<"m", "i", "g", "h", "t">>, <<"s", "h", "a", "l", "l">>, <<"c", "a", "n">>,
    <<"t", "o">>, <<"o", "f">>, <<"i", "n">>, <<"f", "o", "r">>,
    <<"o", "n">>, <<"w", "i", "t", "h">>, <<"a", "t">>, <<"b", "y">>,
    <<"f", "r", "o", "m">>, <<"u", "p">>, <<"a", "b", "o", "u", "t">>, <<"i", "n", "t", "o">>,
    <<"i">>, <<"m", "e">>, <<"m", "y">>, <<"w", "e">>,
    <<"o", "u", "r">>, <<"y", "o", "u">>, <<"y", "o", "u", "r">>, <<"h", "e">>,
    <<"h", "i", "s">>, <<"s", "h", "e">>, <<"h", "e", "r">>, <<"i", "t">>,
    <<"i", "t", "s">>, <<"t", "h", "e", "y">>, <<"t", "h", "e", "m">>, <<"t", "h", "e", "i", "r">>,
    <<"w", "h", "a", "t">>, <<"w", "h", "i", "c", "h">>, <<"w", "h", "o">>, <<"t", "h", "i", "s">>,
    <<"t", "h", "a", "t">>, <<"t", "h", "e", "s", "e">>, <<"t", "h", "o", "s", "e">>, <<"n", "o", "t">>,
    <<"n", "o">>, <<"s", "o">>, <<"b", "u", "t">>, <<"a", "n", "d">>,
    <<"o", "r">>, <<"i", "f">>, <<"t", "h", "e", "n">>, <<"t", "h", "a", "n">>,
    <<"w", "h", "e", "n">>, <<"w", "h", "e", "r", "e">>, <<"h", "o", "w">>, <<"a", "l", "l">>,
    <<"b", "o", "t", "h">>, <<"s", "o", "m", "e">>, <<"j", "u", "s", "t">>, <<"a", "s">>,
    <<"w", "h", "i", "l", "e">>, <<"a", "l", "s", "o">>, <<"m", "o", "r", "e">>, <<"v", "e", "r", "y">>,
    <<"f", "e", "e", "l">>, <<"n", "e", "e", "d">>, <<"w", "a", "n", "t">>, <<"k", "n", "o", "w">>,
    <<"t", "h", "i", "n", "k">>, <<"h", "e", "l", "p">>, <<"p", "l", "e", "a", "s", "e">>, <<"a", "m">>,
    <<"g", "e", "t">>, <<"g", "o", "t">>, <<"l", "e", "t">>, <<"p", "u", "t">>,
    <<"s", "a", "y">> }


(***************************************************************************)
(* Bounds of the model and constants of the program.                       *)
(***************************************************************************)
MaxDay == 0            \* last UTC day the clock of Spec reaches
MaxKeepDay == 8        \* last UTC day the clock of SpecKeep reaches
MaxCount == 2          \* largest `count` passed to getVersesForUser in Spec
MaxStack == 3          \* depth at which the JavaScript call stack overflows
RetentionDays == 7     \* storage.js: cutoff.setDate(cutoff.getDate() - 7)
DefaultCount == 2      \* verses.js: getVersesForUser(user, count = 2)
PoolLimit == 20        \* verses.js: searchVerses(topicName, 20)
ClockStep == 12        \* hours between two observations of the clock
MaxSentPool == 2       \* refs a day's entry may reach in SpecPool
MaxTicks == 1          \* scheduler runs after the first one in SpecTick
MaxHandlers == 1       \* text handlers that wait for Claude at one time
SearchLimit == 10      \* verses.js: searchVerses(query, limit = 10)
UserTopicLimit == 5    \* bot.js: searchVerses(user.topic, 5)
FallbackCount == 2     \* bot.js: verses.slice(0, 2)
ContextLimit == 10     \* bot.js: verses.splice(10)

Users == {1}
KeepUsers == {1}
\* process.env.TZ || 'America/Los_Angeles': hours east of UTC of
\* America/Los_Angeles (the default), UTC and Pacific/Tongatapu
TimeZones == {-8, 0, 13}
\* the default alone
DefaultTimeZones == {-8}

VARIABLES
  kjvIndex,   \* verses.js kjvIndex: normalized key -> text
  kjvVerses,  \* verses.js kjvVerses: ordered list of { ref, text }
  topics,     \* verses.js topics: data/topics.json, label -> list of refs
  users,      \* data/users.json: user id -> record
  log,        \* data/sent_verses.json: <<user id, date>> -> refs sent
  now,        \* wall clock, hours since 00:00 UTC of day 0
  tzOffset,   \* offset of the configured timezone TZ, hours east of UTC
  ret,        \* what the latest operation was called with and returned
  kjvRaw,     \* data/kjv.json as loadJson returns it, or its absence
  phase,      \* "boot", then "ready" (index built), "serving" or "fatal"
  keywordMap, \* verses.js keywordMap: data/keyword_map.json, in key order
  minute,     \* wall clock, minutes past the hour `now`
  ticks,      \* scheduler.js: the runs of sendScheduledVerses, by start time
  handlers,   \* bot.js: the text handlers waiting for askClaude, by user id
  served,     \* user id -> the refs getVersesForUser returned on its latest day
  searched,   \* <<query, limit>> -> what searchVerses returned before any send
  store       \* what data/users.json and data/sent_verses.json hold on disk

vars == <<kjvIndex, kjvVerses, topics, users, log, now, tzOffset, ret,
          kjvRaw, phase, keywordMap, minute, ticks, handlers, served, searched,
          store>>

\* Both files hold a JSON object: the directory `users` and the ledger `log`.
\* Otherwise a file is "absent", "empty" (empty, blank or a bare []),
\* "garbage" (unparseable), or holds well-formed JSON of another shape:
\* "null", "number", "string", or "array", a non-empty array whose elements
\* are `items`.
Sound == [users |-> "object", log |-> "object", items |-> <<>>]

\* what the startup builds, and the clock
loaded == <<kjvRaw, phase, kjvIndex, kjvVerses, topics, keywordMap>>
corpus == <<kjvRaw, phase, kjvIndex, kjvVerses, keywordMap>>
clock == <<now, minute, tzOffset>>

(***************************************************************************)
(* The corpus data/kjv.json (array shape) and the catalogs data/topics.json *)
(* the model is run with.                                                   *)
(***************************************************************************)
KjvArray ==
  << [book |-> b_Romans, chapter |-> 1, verse |-> 17, text |-> t_Rom117],
     [book |-> b_Hebrews, chapter |-> 11, verse |-> 1, text |-> t_Heb111],
     [book |-> b_James, chapter |-> 2, verse |-> 26, text |-> t_Jas226],
     [book |-> b_1John, chapter |-> 4, verse |-> 8, text |-> t_1Jn48],
     [book |-> b_Revelation, chapter |-> 0, verse |-> 0, text |-> t_1Jn48] >>

r_Rom117 == [book |-> b_Romans, chapter |-> 1, verse |-> 17]
r_Heb111 == [book |-> b_Hebrews, chapter |-> 11, verse |-> 1]
r_Jas226 == [book |-> b_James, chapter |-> 2, verse |-> 26]
r_1Jn48 == [book |-> b_1John, chapter |-> 4, verse |-> 8]
r_Rev2222 == [book |-> b_Revelation, chapter |-> 22, verse |-> 22]

\* the shipped shape: 'encouragement' is a label; 'joy' resolves to nothing
\* in this corpus and 'peace' is an empty list
CatalogFull ==
  [t \in {s_faith, s_encouragement, s_joy, s_peace} |->
     IF t = s_faith THEN <<r_Rom117, r_Heb111, r_Jas226>>
     ELSE IF t = s_encouragement THEN <<r_Rev2222, r_Jas226>>
     ELSE IF t = s_joy THEN <<r_Rev2222>>
     ELSE <<>>]
\* a catalog without the label 'encouragement'
CatalogNoDefault ==
  [t \in {s_faith, s_joy} |->
     IF t = s_faith THEN <<r_Rom117, r_Heb111, r_Jas226>> ELSE <<r_Rev2222>>]
\* a catalog whose 'encouragement' refs are all missing from the corpus
CatalogDeadDefault ==
  [t \in {s_faith, s_encouragement} |->
     IF t = s_faith THEN <<r_Rom117, r_Heb111, r_Jas226>> ELSE <<r_Rev2222>>]
Catalogs == {CatalogFull, CatalogNoDefault, CatalogDeadDefault}
\* the catalog of SpecKeep: a two-ref default topic
CatalogKeep ==
  [t \in {s_encouragement} |-> <<r_Heb111, r_1Jn48>>]

\* data/kjv.json in the object shape: one good key, one key whose book has a
\* digit, one key with too few parts and one entry without text
KjvObject ==
  << [key |-> k_Hebrews111, text |-> t_Heb111],
     [key |-> k_1John48, text |-> t_1Jn48],
     [key |-> k_Hebrews, text |-> t_Jas226],
     [key |-> k_Romans117, text |-> <<>>] >>

\* a corpus with more matches of 'hope' than the pool of a free-text topic
\* takes; its last two verses also match 'faith'
KjvLong ==
  [i \in 1..(PoolLimit + 2) |->
     [book |-> b_Romans, chapter |-> 5, verse |-> i,
      text |-> IF i > PoolLimit THEN t_1Cor1313 ELSE t_Rom55]]
CatalogPool ==
  [t \in {s_encouragement} |-> <<[book |-> b_Romans, chapter |-> 5, verse |-> 1]>>]
PoolTopicArgs == {s_hope, s_hopefaith}

NoFile == [shape |-> "absent", items |-> <<>>]
ArrayCorpus(items) == [shape |-> "array", items |-> items]
ObjectCorpus(entries) == [shape |-> "object", items |-> entries]
JsonScalar == [shape |-> "other", items |-> <<>>]

\* the raw corpora the startup is run with
RawCorpora ==
  << NoFile,
     ArrayCorpus(<<>>),
     ArrayCorpus(SubSeq(KjvArray, 5, 5)),
     ArrayCorpus(KjvArray),
     ArrayCorpus(SubSeq(KjvArray, 4, 5)),
     ObjectCorpus(KjvObject),
     ObjectCorpus(<<>>),
     ObjectCorpus(SubSeq(KjvObject, 3, 4)),
     JsonScalar >>

\* data/keyword_map.json in key order: two keywords match 'anxious'
KeywordList ==
  << [keyword |-> w_anxi, topic |-> s_joy],
     [keyword |-> w_faith, topic |-> s_faith],
     [keyword |-> w_anxious, topic |-> s_encouragement] >>

\* the catalog of SpecTick: a one-ref default topic and a topic none of
\* whose refs resolve
CatalogTick ==
  [t \in {s_encouragement, s_joy} |->
     IF t = s_encouragement THEN <<r_Heb111>> ELSE <<r_Rev2222>>]

\* the subscribers of SpecTick and what each of them sends: the first moves
\* the morning slot onto the midday slot (or tries to), the second and the
\* third change topic
TickUsers == {1, 2, 3}
\* the subscribers a send to whom the transport may reject
TickRejects == {1}
TickTimeArgs == {<<1, n_Morning, h_1200>>, <<1, n_morning, h_800>>}
TickTopicArgs == {<<2, s_constructor>>, <<3, s_joy>>}

\* minutes between two scheduler runs the model observes, the distance
\* between the default slots; the first run is the one of 07:30
TickStep == 4 * 60 + 30
FirstTick == 7 * 60 + 30

\* the catalog of SpecRace: two topics whose ref lists overlap
CatalogRace ==
  [t \in {s_encouragement, s_faith} |->
     IF t = s_encouragement THEN <<r_Rom117, r_Heb111, r_Jas226>>
     ELSE <<r_Heb111, r_Rom117>>]
\* the subscribers of SpecRace; the first also writes: a message nothing in
\* the corpus matches, a message with hits, and a change of topic
RaceUsers == {1, 2}
RaceMessages == {s_xyzxyz, s_faith}
RaceTopicArgs == {s_faith}
\* SpecRace observes the runs of 07:30 and 12:00
LastRaceTick == FirstTick + TickStep

\* the array corpus with a second entry for 1 John 4:8
KjvTwice ==
  Append(KjvArray, [book |-> b_1John, chapter |-> 4, verse |-> 8, text |-> t_Heb111])
\* the corpora, the catalog and the arguments of SpecRead
ReadCorpora == <<ArrayCorpus(KjvArray), ObjectCorpus(KjvObject), ArrayCorpus(KjvTwice)>>
CatalogRead ==
  [t \in {s_encouragement, s_faith} |->
     IF t = s_encouragement THEN <<r_1Jn48, r_Heb111>>
     ELSE <<r_Heb111, r_Rom117, r_Rev2222>>]
ReadTopicArgs == {s_faith, s_hope}
ReadQueries == {s_faith, s_hopefaith, s_feelanxious}
ReadLimits == {1, SearchLimit}
ReadTopics == {s_faith, s_encouragement, s_joy}
ReadTexts == {s_feelanxious, s_faith, s_xyzxyz}
ReadRefs == {r_1Jn48, r_Rev2222}
\* SpecRead observes the runs of 07:30 and 12:00
LastReadTick == FirstTick + TickStep

\* the corpus of SpecSearch: verses that match 'fear', 'strong', both or
\* neither, one of them with 'fear' twice; its catalog; the searches made
KjvFear ==
  << [book |-> b_Isaiah, chapter |-> 1, verse |-> 1, text |-> t_BeStrong],
     [book |-> b_Isaiah, chapter |-> 1, verse |-> 2, text |-> t_FearNotBeStrong],
     [book |-> b_Isaiah, chapter |-> 1, verse |-> 3, text |-> t_FearNotFearNot],
     [book |-> b_Isaiah, chapter |-> 1, verse |-> 4, text |-> t_StrongAndFearNot],
     [book |-> b_1John, chapter |-> 4, verse |-> 8, text |-> t_1Jn48] >>
CatalogFear ==
  [t \in {s_encouragement} |->
     <<[book |-> b_Isaiah, chapter |-> 1, verse |-> 2],
       [book |-> b_Isaiah, chapter |-> 1, verse |-> 3]>>]
SearchArgs ==
  {<<q_fearnotbestrong, 15>>, <<q_fearstrong, 15>>, <<q_fearfearstrong, 15>>,
   <<q_notbe, 15>>, <<q_Fear, 2>>}

\* a dot-keyed corpus one of whose keys holds a space
KjvObjectSpaced ==
  << [key |-> k_Hebrews111, text |-> t_Heb111],
     [key |-> k_1_John48, text |-> t_1Jn48] >>
\* data/keyword_map.json in the order of the file, with a keyword of digits
\* at its end
KeywordFileDigits == Append(KeywordList, [keyword |-> w_23, topic |-> s_peace])
\* the corpora, the keyword files and the arguments of SpecLookup
LookupCorpora ==
  <<ArrayCorpus(KjvArray), ObjectCorpus(KjvObject), ObjectCorpus(KjvObjectSpaced)>>
KeywordFiles == <<KeywordList, KeywordFileDigits>>
LookupBooks == {b_1John, b_1JohnTight, b_1JohnWide, b_Hebrews}
LookupChapters == {4, 11}
LookupVerses == {1, 8}
LookupTexts == {s_feelanxious, s_faith, s_xyzxyz, d_anxious23}

\* what a subscriber may type after /topic
TopicArgs == {s_faith, s_hope, s_joy, s_peace, s_xyzxyz, s_constructor, <<>>}
KeepTopicArgs == {s_xyzxyz, s_encouragement}

(***************************************************************************)
(* verses.js: building the index                                           *)
(***************************************************************************)
\* `${String(book).replace(/\s+/g, '')}|${chapter}|${verse}`
IndexKey(book, chapter, verse) ==
  StripSpaces(book) \o <<"|">> \o NumStr(chapter) \o <<"|">> \o NumStr(verse)

\* `${book} ${chapter}:${verse}`
formatRef(ref) ==
  ref.book \o <<" ">> \o NumStr(ref.chapter) \o <<":">> \o NumStr(ref.verse)

\* if (book && chapter && verse && text)
Usable(v) == v.book # <<>> /\ v.chapter # 0 /\ v.verse # 0 /\ v.text # <<>>

MapSet(m, k, v) == [x \in DOMAIN m \cup {k} |-> IF x = k THEN v ELSE m[x]]

\* IndexFromArray that keeps the first text of a key
RECURSIVE IndexFromArray_FirstWins(_, _, _)
IndexFromArray_FirstWins(raw, i, idx) ==
  IF i > Len(raw) THEN idx
  ELSE IF Usable(raw[i])
            /\ IndexKey(raw[i].book, raw[i].chapter, raw[i].verse) \notin DOMAIN idx
       THEN IndexFromArray_FirstWins(raw, i + 1,
              MapSet(idx, IndexKey(raw[i].book, raw[i].chapter, raw[i].verse),
                     Trim(raw[i].text)))
       ELSE IndexFromArray_FirstWins(raw, i + 1, idx)

RECURSIVE IndexFromArray(_, _, _)
IndexFromArray(raw, i, idx) ==
  IF i > Len(raw) THEN idx
  ELSE IF Usable(raw[i])
       THEN IndexFromArray(raw, i + 1,
              MapSet(idx, IndexKey(raw[i].book, raw[i].chapter, raw[i].verse),
                     Trim(raw[i].text)))
       ELSE IndexFromArray(raw, i + 1, idx)

RECURSIVE VersesFromArray(_, _, _)
VersesFromArray(raw, i, acc) ==
  IF i > Len(raw) THEN acc
  ELSE IF Usable(raw[i])
       THEN VersesFromArray(raw, i + 1,
              Append(acc, [ref |-> formatRef(raw[i]), text |-> Trim(raw[i].text)]))
       ELSE VersesFromArray(raw, i + 1, acc)

\* key.split('.')
RECURSIVE SplitDots(_, _, _, _)
SplitDots(s, i, cur, acc) ==
  IF i > Len(s) THEN Append(acc, cur)
  ELSE IF s[i] = "."
       THEN SplitDots(s, i + 1, <<>>, Append(acc, cur))
       ELSE SplitDots(s, i + 1, Append(cur, s[i]), acc)

\* parts.join('')
RECURSIVE JoinAll(_)
JoinAll(parts) == IF parts = <<>> THEN <<>> ELSE Head(parts) \o JoinAll(Tail(parts))

\* const verse = parts.pop(); const chapter = parts.pop(); const book = parts.join('')
\* for the parts of one key; a missing part is undefined, modelled as the
\* empty string, which the test that follows treats alike
KeyParts(parts) ==
  [verse |-> parts[Len(parts)],
   chapter |-> IF Len(parts) >= 2 THEN parts[Len(parts) - 1] ELSE <<>>,
   book |-> IF Len(parts) >= 3 THEN JoinAll(SubSeq(parts, 1, Len(parts) - 2)) ELSE <<>>]

\* if (book && chapter && verse)
UsableKey(k) == k.book # <<>> /\ k.chapter # <<>> /\ k.verse # <<>>

\* the loop over Object.entries(kjvRaw), from entry i on
RECURSIVE IndexFromObject(_, _, _)
IndexFromObject(entries, i, idx) ==
  IF i > Len(entries) THEN idx
  ELSE IF entries[i].text # <<>> /\ UsableKey(KeyParts(SplitDots(entries[i].key, 1, <<>>, <<>>)))
       THEN IndexFromObject(entries, i + 1,
              MapSet(idx,
                     KeyParts(SplitDots(entries[i].key, 1, <<>>, <<>>)).book \o <<"|">>
                       \o KeyParts(SplitDots(entries[i].key, 1, <<>>, <<>>)).chapter \o <<"|">>
                       \o KeyParts(SplitDots(entries[i].key, 1, <<>>, <<>>)).verse,
                     Trim(entries[i].text)))
       ELSE IndexFromObject(entries, i + 1, idx)

\* What the top level of verses.js leaves for the raw corpus `raw`: the index,
\* the flat list, and whether the process has exited.  raw.shape is "absent"
\* (no file), "array", "object", or "other" (null or a JSON scalar).
Built(idx, vs) == [fatal |-> FALSE, index |-> idx, verses |-> vs]
Exited == [fatal |-> TRUE, index |-> <<>>, verses |-> <<>>]

\* BuildIndex without the final test of the size of the index
BuildIndex_NoSizeCheck(raw, idx, vs) ==
  IF raw.shape = "absent" THEN Exited
  ELSE IF raw.shape = "array" /\ Len(raw.items) = 0 THEN Exited
  ELSE Built(idx, vs)

\* the process.exit(1) tests around the two loops
BuildIndex(raw, idx, vs) ==
  IF raw.shape = "absent" THEN Exited
  ELSE IF raw.shape = "array" /\ Len(raw.items) = 0 THEN Exited
  ELSE IF idx = <<>> THEN Exited
  ELSE Built(idx, vs)

LoadKjv(raw) ==
  IF raw.shape = "array"
  THEN BuildIndex(raw, IndexFromArray(raw.items, 1, <<>>), VersesFromArray(raw.items, 1, <<>>))
  ELSE IF raw.shape = "object"
       THEN BuildIndex(raw, IndexFromObject(raw.items, 1, <<>>), <<>>)
       ELSE BuildIndex(raw, <<>>, <<>>)

(***************************************************************************)
(* verses.js: lookups and search                                           *)
(***************************************************************************)
\* JavaScript null where a string is expected: a value no string equals
Null == <<"null">>

\* kjvIndex.get(`${normalizedBook}|${ref.chapter}|${ref.verse}`) ?? null
lookupText(ref) ==
  IF IndexKey(ref.book, ref.chapter, ref.verse) \in DOMAIN kjvIndex
  THEN kjvIndex[IndexKey(ref.book, ref.chapter, ref.verse)]
  ELSE Null

\* lookupText(ref) !== null
HasText(ref) == lookupText(ref) # Null

\* property names every plain object inherits from Object.prototype
ObjectPrototypeKeys == {s_constructor, s_proto}

\* topics[topicName] on the plain object JSON.parse returned
TopicsGet(topicName) ==
  IF topicName \in DOMAIN topics THEN [kind |-> "array", refs |-> topics[topicName]]
  ELSE IF topicName \in ObjectPrototypeKeys THEN [kind |-> "inherited", refs |-> <<>>]
  ELSE [kind |-> "undefined", refs |-> <<>>]

\* Object.entries(JSON.parse(file)) for the entries of a JSON object in the
\* order of the file: the keys that are array indices (canonical numeric
\* strings) come first, in ascending numeric order, then the others in the
\* order of the file
IsArrayIndex(k) ==
  /\ k # <<>>
  /\ \A i \in 1..Len(k) : (\E d \in 1..Len(Digits) : Digits[d] = k[i])
  /\ Len(k) = 1 \/ k[1] # "0"
RECURSIVE ParseNat(_)
ParseNat(k) ==
  IF k = <<>> THEN 0
  ELSE 10 * ParseNat(SubSeq(k, 1, Len(k) - 1))
         + (CHOOSE d \in 0..9 : Digits[d + 1] = k[Len(k)])
RECURSIVE AscendingKeys(_)
AscendingKeys(entries) ==
  IF entries = <<>> THEN <<>>
  ELSE <<entries[CHOOSE i \in 1..Len(entries) :
                   \A j \in 1..Len(entries) :
                     ParseNat(entries[i].keyword) <= ParseNat(entries[j].keyword)]>>
         \o AscendingKeys(SelectSeq(entries,
               LAMBDA e : e # entries[CHOOSE i \in 1..Len(entries) :
                                   \A j \in 1..Len(entries) :
                                     ParseNat(entries[i].keyword)
                                       <= ParseNat(entries[j].keyword)]))
ObjectEntries(entries) ==
  AscendingKeys(SelectSeq(entries, LAMBDA e : IsArrayIndex(e.keyword)))
    \o SelectSeq(entries, LAMBDA e : ~IsArrayIndex(e.keyword))

\* verifyRef(book, chapter, verse)
verifyRef(book, chapter, verse) == IndexKey(book, chapter, verse) \in DOMAIN kjvIndex

\* detectTopic(text): the topic of the first keyword, in the order of
\* Object.entries(keywordMap), that the lower-cased text includes, else null
RECURSIVE FirstKeyword(_, _)
FirstKeyword(lower, i) ==
  IF i > Len(keywordMap) THEN Null
  ELSE IF Includes(lower, keywordMap[i].keyword) THEN keywordMap[i].topic
       ELSE FirstKeyword(lower, i + 1)
detectTopic(text) == FirstKeyword(toLowerCase(text), 1)

\* refs.flatMap(ref => { const text = lookupText(ref); return text ? [...] : [] })
WithText(refs) == SelectSeq(refs, LAMBDA r : lookupText(r) \notin {Null, <<>>})
FlatMapRefs(found) ==
  [i \in 1..Len(found) |-> [ref |-> formatRef(found[i]), text |-> lookupText(found[i])]]

\* getTopicVerses(topicName): const refs = topics[topicName] ?? []
getTopicVerses(topicName) ==
  IF topicName \in DOMAIN topics THEN FlatMapRefs(WithText(topics[topicName])) ELSE <<>>

\* QueryWords that keeps short words and stopwords
QueryWords_NoFilter(query) == SplitSpaces(StripNonLetters(toLowerCase(query)))

\* the words of a query
QueryWords(query) ==
  SelectSeq(SplitSpaces(StripNonLetters(toLowerCase(query))),
            LAMBDA w : Len(w) > 2 /\ w \notin STOPWORDS)

\* for (const word of words) if (lower.includes(word)) score++
Score(words, lower) ==
  Cardinality({i \in 1..Len(words) : Includes(lower, words[i])})

\* Scored that passes over the verses of the ledger
Scored_SkipSent(words) ==
  SelectSeq([i \in 1..Len(kjvVerses) |->
               [score |-> Score(words, toLowerCase(kjvVerses[i].text)),
                ref |-> kjvVerses[i].ref, text |-> kjvVerses[i].text]],
            LAMBDA e : e.score > 0
                         /\ \A k \in DOMAIN log : ~BagIn(e.ref, log[k]))

\* Scored that keeps the lower-cased text it scored
Scored_Lowered(words) ==
  SelectSeq([i \in 1..Len(kjvVerses) |->
               [score |-> Score(words, toLowerCase(kjvVerses[i].text)),
                ref |-> kjvVerses[i].ref, text |-> toLowerCase(kjvVerses[i].text)]],
            LAMBDA e : e.score > 0)

\* the loop over kjvVerses: if (score > 0) scored.push({ score, ref, text })
Scored(words) ==
  SelectSeq([i \in 1..Len(kjvVerses) |->
               [score |-> Score(words, toLowerCase(kjvVerses[i].text)),
                ref |-> kjvVerses[i].ref, text |-> kjvVerses[i].text]],
            LAMBDA e : e.score > 0)

\* scored.sort((a, b) => b.score - a.score): stable, highest score first;
\* sc is the highest score an entry can have
RECURSIVE SortByScore(_, _)
SortByScore(scored, sc) ==
  IF sc = 0 THEN <<>>
  ELSE SelectSeq(scored, LAMBDA e : e.score = sc) \o SortByScore(scored, sc - 1)

\* TopOf without the slice
TopOf_NoSlice(sorted, limit) ==
  [i \in 1..Len(sorted) |-> [ref |-> sorted[i].ref, text |-> sorted[i].text]]

\* scored.slice(0, limit).map(({ ref, text }) => ({ ref, text }))
TopOf(sorted, limit) ==
  [i \in 1..Min(limit, Len(sorted)) |-> [ref |-> sorted[i].ref, text |-> sorted[i].text]]

SearchWords(words, limit) ==
  IF Len(words) = 0 THEN <<>>
  ELSE TopOf(SortByScore(Scored(words), Len(words)), limit)

searchVerses(query, limit) == SearchWords(QueryWords(query), limit)

(***************************************************************************)
(* Dates.  A date string YYYY-MM-DD is modelled by its day number, whose   *)
(* order is the lexicographic order of the strings.                        *)
(***************************************************************************)
\* new Date().toLocaleDateString('en-CA', { timeZone: tz })
todayDate == (now + tzOffset) \div 24

\* cutoff.setDate(cutoff.getDate() - 7); cutoff.toISOString().split('T')[0]
cutoffStr == (now - 24 * RetentionDays) \div 24

(***************************************************************************)
(* storage.js.  An entry of the ledger is a JSON array that the program    *)
(* only pushes to and tests membership of; it is modelled as a bag, which  *)
(* keeps the number of copies of each ref and drops their order.           *)
(***************************************************************************)
\* readLog()[`${userId}|${date}`] ?? []
getSentVersesToday(userId, date) ==
  IF <<userId, date>> \in DOMAIN log THEN log[<<userId, date>>] ELSE EmptyBag

\* Prune with the comparison inverted: it deletes the recent entries
Prune_Inverted(lg) == [k \in {x \in DOMAIN lg : x[2] < cutoffStr} |-> lg[k]]

\* for (const k of Object.keys(log)) if (entryDate < cutoffStr) delete log[k]
Prune(lg) == [k \in {x \in DOMAIN lg : ~(x[2] < cutoffStr)} |-> lg[k]]

\* if (!log[key]) log[key] = []
EntryOf(lg, key) == IF key \in DOMAIN lg THEN lg[key] ELSE EmptyBag

\* PushAndPrune without the `includes` test
PushAndPrune_NoCheck(lg, key, entry, verseRef) ==
  Prune(MapSet(lg, key, entry (+) SetToBag({verseRef})))

\* PushAndPrune that writes the ref in place of the entry
PushAndPrune_Replace(lg, key, entry, verseRef) ==
  IF BagIn(verseRef, entry) THEN lg
  ELSE Prune(MapSet(lg, key, SetToBag({verseRef})))

\* logVerse after the read of the entry
PushAndPrune(lg, key, entry, verseRef) ==
  IF BagIn(verseRef, entry) THEN lg
  ELSE Prune(MapSet(lg, key, entry (+) SetToBag({verseRef})))

\* logVerse(userId, verseRef, date) on the ledger lg: the ledger it leaves
logVerse(lg, userId, verseRef, date) ==
  PushAndPrune(lg, <<userId, date>>, EntryOf(lg, <<userId, date>>), verseRef)

\* LogAll whose writes have not reached the ledger when the call returns
LogAll_Deferred(lg, userId, refs, date) == lg

\* for (const ref of picked) logVerse(user.user_id, ref, today)
RECURSIVE LogAll(_, _, _, _)
LogAll(lg, userId, refs, date) ==
  IF refs = <<>> THEN lg
  ELSE LogAll(logVerse(lg, userId, Head(refs), date), userId, Tail(refs), date)

USER_DEFAULTS ==
  [topic |-> s_encouragement, morning |-> h_0730, midday |-> h_1200,
   afternoon |-> h_1630, evening |-> h_2100]

(***************************************************************************)
(* verses.js: getVersesForUser                                             *)
(***************************************************************************)
\* pool.sort(() => Math.random() - 0.5).slice(0, n): the first n entries of
\* some permutation of the pool
Picks(pool, n) ==
  {[i \in 1..n |-> pool[p[i]]] :
     p \in {q \in [1..n -> 1..Len(pool)] :
              \A i, j \in 1..n : i # j => q[i] # q[j]}}

Returned(vs, lg) == [status |-> "ok", verses |-> vs, log |-> lg]
Raised(err) == [status |-> err, verses |-> <<>>, log |-> log]

\* the curated branch from `if (available.length === 0) return []` on
PickRefs(user, count, today, available) ==
  IF Len(available) = 0 THEN {Returned(<<>>, log)}
  ELSE {Returned([i \in 1..Len(picked) |->
                    [ref |-> formatRef(picked[i]), text |-> lookupText(picked[i])]],
                 LogAll(log, user.user_id,
                        [i \in 1..Len(picked) |-> formatRef(picked[i])], today)) :
          picked \in Picks(available, Min(count, Len(available)))}

\* AllowRepeats that tops a short unseen list up with the whole list
AllowRepeats_TopUp(unseen, refs) ==
  IF Len(unseen) < DefaultCount THEN SelectSeq(refs, HasText) ELSE unseen

\* AllowRepeats that never allows a repeat
AllowRepeats_Never(unseen, refs) == unseen

\* if (available.length === 0) available = refs.filter(ref => lookupText(ref) !== null)
AllowRepeats(unseen, refs) ==
  IF Len(unseen) = 0 THEN SelectSeq(refs, HasText) ELSE unseen

\* FromCatalog without the test against today's sent set
FromCatalog_NoExclusion(user, count, today, sentToday, refs) ==
  PickRefs(user, count, today, SelectSeq(refs, HasText))

\* FromCatalog without the test that a ref resolves
FromCatalog_NoLookup(user, count, today, sentToday, refs) ==
  PickRefs(user, count, today,
           AllowRepeats(SelectSeq(refs, LAMBDA ref : formatRef(ref) \notin sentToday),
                        refs))

\* the curated branch: if (topics[topicName]) { ... }
FromCatalog(user, count, today, sentToday, refs) ==
  PickRefs(user, count, today,
           AllowRepeats(SelectSeq(refs, LAMBDA ref : HasText(ref)
                                          /\ formatRef(ref) \notin sentToday),
                        refs))

\* the custom branch after the empty-pool test: pick from source and log
PickVerses(user, count, today, source) ==
  {Returned(picked,
            LogAll(log, user.user_id, [i \in 1..Len(picked) |-> picked[i].ref], today)) :
     picked \in Picks(source, Min(count, Len(source)))}

\* const source = available.length > 0 ? available : pool
SourceOf(available, pool) == IF Len(available) > 0 THEN available ELSE pool

\* FromSearch without the fallback to the default topic
FromSearch_NoFallback(user, count, today, sentToday, pool, stack) ==
  IF Len(pool) = 0 THEN {Returned(<<>>, log)}
  ELSE PickVerses(user, count, today,
                  SourceOf(SelectSeq(pool, LAMBDA v : v.ref \notin sentToday), pool))

\* The outcomes of getVersesForUser(user, count): what it returns or raises
\* and the ledger it leaves.  `stack` is the room left on the call stack.
RECURSIVE getVersesForUser(_, _, _)

\* the custom branch: const pool = searchVerses(topicName, 20) and what follows
FromSearch(user, count, today, sentToday, pool, stack) ==
  IF Len(pool) = 0
  THEN getVersesForUser([user EXCEPT !.topic = s_encouragement], count, stack - 1)
  ELSE PickVerses(user, count, today,
                  SourceOf(SelectSeq(pool, LAMBDA v : v.ref \notin sentToday), pool))

Resolve(user, count, topicName, today, sentToday, entry, stack) ==
  IF entry.kind = "inherited" THEN {Raised("TypeError")}
  ELSE IF entry.kind = "array"
       THEN FromCatalog(user, count, today, sentToday, entry.refs)
       ELSE FromSearch(user, count, today, sentToday,
                       searchVerses(topicName, PoolLimit), stack)

TopicNameOf(user) == IF user.topic = <<>> THEN s_encouragement ELSE user.topic

getVersesForUser(user, count, stack) ==
  IF stack = 0 THEN {Raised("RangeError")}
  ELSE Resolve(user, count, TopicNameOf(user), todayDate,
               BagToSet(getSentVersesToday(user.user_id, todayDate)),
               TopicsGet(TopicNameOf(user)), stack)

(***************************************************************************)
(* State machine                                                           *)
(***************************************************************************)
NoRef == [book |-> <<>>, chapter |-> 0, verse |-> 0]
NoCall == [op |-> "none", user |-> 0, topic |-> <<>>, count |-> 0, today |-> 0,
           sentBefore |-> {}, status |-> "ok", verses |-> <<>>,
           arg |-> <<>>, ref |-> NoRef, words |-> <<>>]

\* the state once the top level of verses.js has run on the array corpus
\* `items` and index.js is listening
Loaded(items) ==
  /\ kjvRaw = ArrayCorpus(items)
  /\ kjvIndex = LoadKjv(kjvRaw).index
  /\ kjvVerses = LoadKjv(kjvRaw).verses
  /\ keywordMap = KeywordList
  /\ phase = "serving"

InitCorpus == Loaded(KjvArray)

\* no scheduler run, no text handler and no call yet, at a full hour
Idle ==
  /\ minute = 0
  /\ ticks = <<>>
  /\ handlers = <<>>
  /\ served = <<>>
  /\ searched = <<>>
  /\ store = Sound

Init ==
  /\ InitCorpus
  /\ topics \in Catalogs
  /\ users = <<>>
  /\ log = <<>>
  /\ now = 0
  /\ tzOffset \in DefaultTimeZones
  /\ ret = NoCall
  /\ Idle

InitKeep ==
  /\ InitCorpus
  /\ topics = CatalogKeep
  /\ users = <<>>
  /\ log = <<>>
  /\ now = 0
  /\ tzOffset \in TimeZones
  /\ ret = NoCall
  /\ Idle

\* the refs getVersesForUser returned to userId on `date` so far
ServedOn(srv, userId, date) ==
  IF userId \in DOMAIN srv /\ srv[userId].date = date THEN srv[userId].refs ELSE {}

\* a call for userId on `date` has returned refs
Serve(srv, userId, date, refs) ==
  IF refs = {} THEN srv
  ELSE MapSet(srv, userId, [date |-> date, refs |-> ServedOn(srv, userId, date) \cup refs])

\* storage.js upsertUser, as bot.js registerUser calls it
upsertUser(us, userId) ==
  IF userId \in DOMAIN us THEN us
  ELSE MapSet(us, userId, [user_id |-> userId] @@ USER_DEFAULTS)

\* storage.js updateUser(userId, { topic })
updateUser(us, userId, topic) ==
  IF userId \notin DOMAIN us THEN us
  ELSE [us EXCEPT ![userId].topic = topic]

\* bot.command('start')
Start(u) ==
  /\ users' = upsertUser(users, u)
  /\ ret' = [NoCall EXCEPT !.op = "start", !.user = u]
  /\ UNCHANGED <<loaded, log, clock, searched, store, ticks, handlers, served>>

\* bot.command('topic') with the text `text` after the command name
TopicCommand(u, text) ==
  LET registered == upsertUser(users, u)
      arg == toLowerCase(Trim(text))
  IN  /\ users' = IF arg = <<>> THEN registered ELSE updateUser(registered, u, arg)
      /\ ret' = [NoCall EXCEPT !.op = "topic", !.user = u]
      /\ UNCHANGED <<loaded, log, clock, searched, store, ticks, handlers, served>>

\* CatalogAfterSort that sorts the topic's own list: here, that reverses it
CatalogAfterSort_InPlace(cat, topicName, picked) ==
  IF topicName \in DOMAIN cat /\ Len(picked) > 0
  THEN [cat EXCEPT ![topicName] = [i \in 1..Len(@) |-> @[Len(@) + 1 - i]]]
  ELSE cat

\* The catalog a call getVersesForUser for topicName leaves: `available` is
\* the array refs.filter(...) returned and `source` the one searchVerses
\* returned, so .sort(() => Math.random() - 0.5) reorders a copy
CatalogAfterSort(cat, topicName, picked) == cat

\* a call getVersesForUser(user, count) for a stored subscriber record, as the
\* scheduler and the text handler make it
Select(u, count) ==
  /\ u \in DOMAIN users
  /\ \E out \in getVersesForUser(users[u], count, MaxStack) :
       /\ log' = out.log
       /\ served' = Serve(served, u, todayDate, RefsOf(out.verses))
       /\ ret' = [op |-> "select", user |-> u, topic |-> users[u].topic,
                  count |-> count, today |-> todayDate,
                  sentBefore |-> BagToSet(getSentVersesToday(u, todayDate)),
                  status |-> out.status, verses |-> out.verses,
                  arg |-> <<>>, ref |-> NoRef, words |-> <<>>]
       /\ topics' = CatalogAfterSort(topics, TopicNameOf(users[u]), out.verses)
  /\ UNCHANGED <<corpus, users, clock, searched, store, ticks, handlers>>

\* time passes
AdvanceClock(lastDay) ==
  /\ now + ClockStep < 24 * (lastDay + 1)
  /\ now' = now + ClockStep
  /\ ret' = NoCall
  /\ UNCHANGED <<loaded, users, log, minute, tzOffset, searched, store, ticks, handlers, served>>

Next ==
  \/ \E u \in Users : Start(u)
  \/ \E u \in Users, text \in TopicArgs : TopicCommand(u, text)
  \/ \E u \in Users, count \in 1..MaxCount : Select(u, count)
  \/ AdvanceClock(MaxDay)

Spec == Init /\ [][Next]_vars

NextKeep ==
  \/ \E u \in KeepUsers : Start(u)
  \/ \E u \in KeepUsers, text \in KeepTopicArgs : TopicCommand(u, text)
  \/ \E u \in KeepUsers : Select(u, DefaultCount)
  \/ AdvanceClock(MaxKeepDay)

SpecKeep == InitKeep /\ [][NextKeep]_vars

(***************************************************************************)
(* bot.js settime, storage.js getUsersByTime and scheduler.js               *)
(***************************************************************************)
\* /^\d{2}:\d{2}$/.test(time)
IsDigit(c) == \E i \in 1..Len(Digits) : Digits[i] = c
IsHHMM(time) ==
  /\ Len(time) = 5
  /\ IsDigit(time[1]) /\ IsDigit(time[2])
  /\ time[3] = ":"
  /\ IsDigit(time[4]) /\ IsDigit(time[5])

validSlots == <<n_morning, n_midday, n_afternoon, n_evening>>

\* { ...users[key], [slot]: time }
SetSlot(rec, slot, time) ==
  IF slot = n_morning THEN [rec EXCEPT !.morning = time]
  ELSE IF slot = n_midday THEN [rec EXCEPT !.midday = time]
  ELSE IF slot = n_afternoon THEN [rec EXCEPT !.afternoon = time]
  ELSE [rec EXCEPT !.evening = time]

\* SetTimeAccepts without the test of the time
SetTimeAccepts_AnyTime(slot, time) ==
  \E i \in 1..Len(validSlots) : validSlots[i] = slot

\* the two tests of bot.command('settime')
SetTimeAccepts(slot, time) ==
  /\ \E i \in 1..Len(validSlots) : validSlots[i] = slot
  /\ IsHHMM(time)

\* bot.command('settime') with the words slotWord and time after the command
SetTime(u, slotWord, time) ==
  /\ users' = IF SetTimeAccepts(toLowerCase(slotWord), time)
               THEN [upsertUser(users, u) EXCEPT ![u] = SetSlot(@, toLowerCase(slotWord), time)]
               ELSE upsertUser(users, u)
  /\ ret' = [NoCall EXCEPT !.op = "settime", !.user = u]
  /\ UNCHANGED <<loaded, log, clock, searched, store, ticks, handlers, served>>

\* padStart(2, '0') of the hour or minute Intl formats
Pad2(n) == IF n < 10 THEN <<"0">> \o NumStr(n) ELSE NumStr(n)

\* `${h === '24' ? '00' : h}:${m}`
HHMM(h, m) == (IF h = <<"2", "4">> THEN <<"0", "0">> ELSE h) \o <<":">> \o m

\* currentHHMM(): the wall clock in the timezone TZ
currentHHMM == HHMM(Pad2((now + tzOffset) % 24), Pad2(minute))

\* Object.values(readUsers()): the records in ascending order of user id
RECURSIVE Ascending(_)
Ascending(ids) ==
  IF ids = {} THEN <<>>
  ELSE <<CHOOSE x \in ids : \A y \in ids : x <= y>>
         \o Ascending(ids \ {CHOOSE x \in ids : \A y \in ids : x <= y})
Values(us) == [i \in 1..Len(Ascending(DOMAIN us)) |-> us[Ascending(DOMAIN us)[i]]]

\* getUsersByTime that collects the matches slot by slot
getUsersByTime_PerSlot(us, hhmm) ==
  SelectSeq(Values(us), LAMBDA u : u.morning = hhmm)
    \o SelectSeq(Values(us), LAMBDA u : u.midday = hhmm)
    \o SelectSeq(Values(us), LAMBDA u : u.afternoon = hhmm)
    \o SelectSeq(Values(us), LAMBDA u : u.evening = hhmm)

\* getUsersByTime(hhmm) on the directory us
getUsersByTime(us, hhmm) ==
  SelectSeq(Values(us), LAMBDA u : u.morning = hhmm \/ u.midday = hhmm
                                     \/ u.afternoon = hhmm \/ u.evening = hhmm)

\* A run of sendScheduledVerses: the time string and the records it read at
\* its start, where it stands (pc is "await" while the send to users[i] is
\* pending, then "done", or "aborted" when an error left the function), and
\* what it has done: the subscribers it called getVersesForUser for, those
\* whose result was empty, those it called sendMessage for, those whose
\* send has settled and those whose send was rejected.  `due` is the set of subscribers of the directory that
\* had a slot equal to the time string when the run started.
NewRun(hhmm, matched, due) ==
  [hhmm |-> hhmm, users |-> matched, due |-> due, i |-> 0, pc |-> "run",
   selected |-> <<>>, empty |-> {}, attempts |-> <<>>, settled |-> {}, failed |-> {}]

\* what a step of a run leaves: the run, the ledger, the served refs and the
\* latest getVersesForUser call of the step
Step(run, lg, srv, call) == [run |-> run, log |-> lg, served |-> srv, call |-> call]

CallOf(user, out) ==
  [op |-> "select", user |-> user.user_id, topic |-> user.topic,
   count |-> DefaultCount, today |-> todayDate,
   sentBefore |-> BagToSet(getSentVersesToday(user.user_id, todayDate)),
   status |-> out.status, verses |-> out.verses, arg |-> <<>>, ref |-> NoRef, words |-> <<>>]

RECURSIVE RunLoop(_, _, _)

\* AtSend that does not wait for the send before the next iteration
AtSend_NoAwait(run, j, out) ==
  RunLoop([run EXCEPT !.i = j, !.pc = "await",
                      !.selected = Append(@, run.users[j].user_id),
                      !.attempts = Append(@, run.users[j].user_id)],
          j + 1, CallOf(run.users[j], out))

\* AtSend when the picks reach the ledger only once the send has succeeded
AtSend_Unlogged(run, j, out) ==
  {Step([run EXCEPT !.i = j, !.pc = "await",
                    !.selected = Append(@, run.users[j].user_id),
                    !.attempts = Append(@, run.users[j].user_id)],
        log,
        Serve(served, run.users[j].user_id, todayDate, RefsOf(out.verses)),
        CallOf(run.users[j], out))}

\* await bot.telegram.sendMessage(user.user_id, buildVerseMessage(verses)):
\* the run is suspended until the send to users[j] settles
AtSend(run, j, out) ==
  {Step([run EXCEPT !.i = j, !.pc = "await",
                    !.selected = Append(@, run.users[j].user_id),
                    !.attempts = Append(@, run.users[j].user_id)],
        out.log,
        Serve(served, run.users[j].user_id, todayDate, RefsOf(out.verses)),
        CallOf(run.users[j], out))}

\* one iteration of `for (const user of users)` for the outcome `out` of
\* getVersesForUser(user): an error leaves the function, an empty result
\* goes on to the next subscriber at once
Iterate(run, j, out) ==
  IF out.status # "ok"
  THEN {Step([run EXCEPT !.i = j, !.pc = "aborted",
                         !.selected = Append(@, run.users[j].user_id)],
             out.log, served, CallOf(run.users[j], out))}
  ELSE IF Len(out.verses) = 0
       THEN RunLoop([run EXCEPT !.selected = Append(@, run.users[j].user_id),
                                !.empty = @ \cup {run.users[j].user_id}],
                    j + 1, CallOf(run.users[j], out))
       ELSE AtSend(run, j, out)

\* the loop from its j-th iteration up to the next await or the end
RunLoop(run, j, call) ==
  IF j > Len(run.users)
  THEN {Step([run EXCEPT !.i = 0, !.pc = "done"], log, served, call)}
  ELSE UNION {Iterate(run, j, out) :
                out \in getVersesForUser(run.users[j], DefaultCount, MaxStack)}

\* ResumeAt that sends again to a subscriber whose send was rejected
ResumeAt_Retry(run, ok) == IF ok THEN run.i + 1 ELSE run.i

\* the iteration a run goes on with once the awaited send has settled
ResumeAt(run, ok) == run.i + 1

\* try { await ... } catch (err) { console.error(...) }
Settled(run, ok) ==
  [run EXCEPT !.settled = @ \cup {run.users[run.i].user_id},
              !.failed = IF ok THEN @ ELSE @ \cup {run.users[run.i].user_id}]

TickCall == [NoCall EXCEPT !.op = "tick"]

\* the wall clock in minutes
Minutes == now * 60 + minute

\* cron.schedule('* * * * *', sendScheduledVerses): the run of this minute
\* starts and goes up to its first await
Tick ==
  /\ phase = "serving"
  /\ Minutes \notin DOMAIN ticks
  /\ \E o \in RunLoop(NewRun(currentHHMM, getUsersByTime(users, currentHHMM),
                             {u \in DOMAIN users :
                                currentHHMM \in {users[u].morning, users[u].midday,
                                                 users[u].afternoon, users[u].evening}}),
                      1, TickCall) :
       /\ ticks' = MapSet(ticks, Minutes, o.run)
       /\ log' = o.log
       /\ served' = o.served
       /\ ret' = o.call
       /\ topics' = CatalogAfterSort(topics, TopicNameOf(o.call), o.call.verses)
  /\ UNCHANGED <<corpus, users, clock, searched, store, handlers>>

\* the send the run started at minute T awaits is resolved (ok) or rejected,
\* and the run goes on up to its next await
Continue(T, run, j) ==
  IF run.pc = "aborted"
  THEN /\ ticks' = MapSet(ticks, T, run)
       /\ ret' = TickCall
       /\ UNCHANGED <<log, served, topics>>
  ELSE \E o \in RunLoop(run, j, TickCall) :
         /\ ticks' = MapSet(ticks, T, o.run)
         /\ log' = o.log
         /\ served' = o.served
         /\ ret' = o.call
         /\ topics' = CatalogAfterSort(topics, TopicNameOf(o.call), o.call.verses)

SendSettles(T, ok) ==
  /\ T \in DOMAIN ticks
  /\ ticks[T].pc = "await"
  /\ Continue(T, Settled(ticks[T], ok), ResumeAt(Settled(ticks[T], ok), ok))
  /\ UNCHANGED <<corpus, users, clock, searched, store, handlers>>

\* a minute of the cron schedule goes by once its run has started; the runs
\* that have ended are forgotten
NextMinute(lastLocal) ==
  /\ Minutes \in DOMAIN ticks
  /\ Minutes + 60 * tzOffset + TickStep <= lastLocal
  /\ now' = (Minutes + TickStep) \div 60
  /\ minute' = (Minutes + TickStep) % 60
  /\ ticks' = [T \in {x \in DOMAIN ticks : ticks[x].pc = "await"} |-> ticks[T]]
  /\ ret' = NoCall
  /\ UNCHANGED <<loaded, users, log, tzOffset, searched, store, handlers, served>>

\* The scheduler over three registered subscribers
InitTick ==
  /\ Loaded(KjvArray)
  /\ topics = CatalogTick
  /\ users = upsertUser(upsertUser(upsertUser(<<>>, 1), 2), 3)
  /\ log = <<>>
  /\ tzOffset \in DefaultTimeZones
  /\ now = (FirstTick - 60 * tzOffset) \div 60
  /\ minute = (FirstTick - 60 * tzOffset) % 60
  /\ ticks = <<>>
  /\ handlers = <<>>
  /\ served = <<>>
  /\ searched = <<>>
  /\ store = Sound
  /\ ret = NoCall

\* the send to subscriber u that some run awaits settles
SendSettlesTo(u) ==
  \E T \in DOMAIN ticks, ok \in BOOLEAN :
    /\ ticks[T].pc = "await"
    /\ ticks[T].users[ticks[T].i].user_id = u
    /\ ok \/ u \in TickRejects
    /\ SendSettles(T, ok)

NextTick ==
  \/ \E a \in TickTimeArgs : SetTime(a[1], a[2], a[3])
  \/ \E a \in TickTopicArgs : TopicCommand(a[1], a[2])
  \/ Tick
  \/ \E u \in TickUsers : SendSettlesTo(u)
  \/ NextMinute(FirstTick + MaxTicks * TickStep)

SpecTick == InitTick /\ [][NextTick]_vars

\* The scheduler when cron fires every run, time passes, and every send
\* settles except, possibly, the sends to subscriber 1
SpecTickFair ==
  /\ SpecTick
  /\ WF_vars(Tick)
  /\ WF_vars(NextMinute(FirstTick + MaxTicks * TickStep))
  /\ \A u \in TickUsers \ {1} : WF_vars(SendSettlesTo(u))

\* The selector over a corpus with more than PoolLimit matches: calls go on
\* while the day's entry can take their picks
InitPool ==
  /\ Loaded(KjvLong)
  /\ topics = CatalogPool
  /\ users = <<>>
  /\ log = <<>>
  /\ now = 0
  /\ tzOffset \in DefaultTimeZones
  /\ ret = NoCall
  /\ Idle

SelectPool(u, count) ==
  /\ Cardinality(BagToSet(getSentVersesToday(u, todayDate))) + count <= MaxSentPool
  /\ Select(u, count)

NextPool ==
  \/ \E u \in Users : Start(u)
  \/ \E u \in Users, text \in PoolTopicArgs : TopicCommand(u, text)
  \/ \E u \in Users, count \in 1..DefaultCount : SelectPool(u, count)

SpecPool == InitPool /\ [][NextPool]_vars

(***************************************************************************)
(* bot.js: bot.on('text')                                                  *)
(***************************************************************************)
\* for (const v of [...]) if (!seen.has(v.ref)) { seen.add(v.ref); verses.push(v) }
RECURSIVE Dedupe(_, _)
Dedupe(vs, acc) ==
  IF vs = <<>> THEN acc
  ELSE Dedupe(Tail(vs),
              IF Head(vs).ref \in RefsOf(acc) THEN acc ELSE Append(acc, Head(vs)))

\* step 1 of the handler: keywordHits, topicHits and userTopicHits,
\* deduplicated by ref and cut to ContextLimit
TopicHits(detectedTopic) ==
  IF detectedTopic = Null THEN <<>> ELSE getTopicVerses(detectedTopic)
UserTopicHits(user) ==
  IF user.topic = <<>> THEN <<>> ELSE searchVerses(user.topic, UserTopicLimit)
ContextOf(keywordHits, others) ==
  SubSeq(Dedupe(others, keywordHits), 1,
         Min(ContextLimit, Len(Dedupe(others, keywordHits))))
ContextVerses(user, message) ==
  ContextOf(searchVerses(message, SearchLimit),
            TopicHits(detectTopic(message)) \o UserTopicHits(user))

\* a handler suspended at `await askClaude(message, verses)`: the record
\* registerUser returned and the context verses
Pending(user, verses) == [user |-> user, verses |-> verses]

Without(seq, h) == [i \in 1..(Len(seq) - 1) |-> IF i < h THEN seq[i] ELSE seq[i + 1]]

\* index.js: the webhook receiver takes updates from app.listen on, before
\* and after the listen callback has started the scheduler
Accepting == {"listening", "serving"}

\* ctx.message.text.startsWith('/')
startsWithSlash(message) == Len(message) > 0 /\ message[1] = "/"

\* verses.slice(0, 2) that keeps every verse
FallbackVerses_All(verses) == verses

\* verses.slice(0, 2)
FallbackVerses(verses) == SubSeq(verses, 1, Min(FallbackCount, Len(verses)))

\* LedgerAfterReply that records the verses of the reply as sent
LedgerAfterReply_Logged(lg, userId, verses, date) ==
  LogAll(lg, userId, [i \in 1..Len(verses) |-> verses[i].ref], date)

\* ctx.reply(buildVerseMessage(verses.slice(0, 2))): the ledger it leaves;
\* the branch makes no logVerse call
LedgerAfterReply(lg, userId, verses, date) == lg

\* a text message of subscriber u arrives: the handler returns at once for a
\* message that starts with '/', and else runs up to `await askClaude`
TextMessage(u, message) ==
  /\ phase \in Accepting
  /\ Len(handlers) < MaxHandlers
  /\ IF startsWithSlash(message)
     THEN UNCHANGED <<users, handlers>>
     ELSE /\ users' = upsertUser(users, u)
          /\ handlers' = Append(handlers,
                                Pending(upsertUser(users, u)[u],
                                        ContextVerses(upsertUser(users, u)[u], message)))
  /\ ret' = [NoCall EXCEPT !.op = "text", !.user = u, !.arg = message]
  /\ UNCHANGED <<loaded, log, clock, searched, store, ticks, served>>

\* askClaude of handler h settles: with a reply (replied), or with null (no
\* API key, no text in the response), an empty text or an error, and then
\* the handler answers with the first context verses (op "verses", `count`
\* is the number of context verses) or, when it has none, with what
\* getVersesForUser(user) returns
ClaudeSettles(h, replied) ==
  /\ h \in 1..Len(handlers)
  /\ handlers' = Without(handlers, h)
  /\ IF replied
     THEN /\ ret' = [NoCall EXCEPT !.op = "reply", !.user = handlers[h].user.user_id]
          /\ UNCHANGED <<log, served, topics>>
     ELSE IF Len(handlers[h].verses) > 0
     THEN /\ ret' = [NoCall EXCEPT !.op = "verses", !.user = handlers[h].user.user_id,
                                   !.count = Len(handlers[h].verses),
                                   !.verses = FallbackVerses(handlers[h].verses)]
          /\ log' = LedgerAfterReply(log, handlers[h].user.user_id,
                                     FallbackVerses(handlers[h].verses), todayDate)
          /\ UNCHANGED <<served, topics>>
     ELSE \E out \in getVersesForUser(handlers[h].user, DefaultCount, MaxStack) :
            /\ log' = out.log
            /\ served' = Serve(served, handlers[h].user.user_id, todayDate,
                               RefsOf(out.verses))
            /\ ret' = CallOf(handlers[h].user, out)
            /\ topics' = CatalogAfterSort(topics, TopicNameOf(handlers[h].user), out.verses)
  /\ UNCHANGED <<corpus, users, clock, searched, store, ticks>>

\* Overlapping scheduler runs and text handlers of two registered subscribers
InitRace ==
  /\ Loaded(KjvArray)
  /\ topics = CatalogRace
  /\ users = upsertUser(upsertUser(<<>>, 1), 2)
  /\ log = <<>>
  /\ tzOffset \in DefaultTimeZones
  /\ now = (FirstTick - 60 * tzOffset) \div 60
  /\ minute = (FirstTick - 60 * tzOffset) % 60
  /\ ret = NoCall
  /\ ticks = <<>>
  /\ handlers = <<>>
  /\ served = <<>>
  /\ searched = <<>>
  /\ store = Sound

NextRace ==
  \/ \E text \in RaceTopicArgs : TopicCommand(1, text)
  \/ \E message \in RaceMessages : TextMessage(1, message)
  \/ \E h \in 1..MaxHandlers, replied \in BOOLEAN : ClaudeSettles(h, replied)
  \/ Tick
  \/ \E u \in RaceUsers : SendSettlesTo(u)
  \/ NextMinute(LastRaceTick)

SpecRace == InitRace /\ [][NextRace]_vars

(***************************************************************************)
(* verses.js: the lookups as operations                                    *)
(***************************************************************************)
\* a call searchVerses(query, limit)
Search(query, limit) ==
  /\ ret' = [NoCall EXCEPT !.op = "search", !.topic = query, !.count = limit,
                            !.verses = searchVerses(query, limit)]
  /\ UNCHANGED <<loaded, users, log, clock, searched, store, ticks, handlers, served>>

\* a call searchVerses(query, limit); its result is noted when it is the
\* first for this query and limit and nothing has been sent yet
SearchNoted(query, limit) ==
  /\ ret' = [NoCall EXCEPT !.op = "search", !.topic = query, !.count = limit,
                            !.verses = searchVerses(query, limit)]
  /\ searched' = IF <<query, limit>> \notin DOMAIN searched /\ log = <<>>
                 THEN MapSet(searched, <<query, limit>>, searchVerses(query, limit))
                 ELSE searched
  /\ UNCHANGED <<loaded, users, log, clock, store, ticks, handlers, served>>

\* a call getTopicVerses(topicName)
TopicVerses(topicName) ==
  /\ ret' = [NoCall EXCEPT !.op = "topicVerses", !.topic = topicName,
                            !.verses = getTopicVerses(topicName)]
  /\ UNCHANGED <<loaded, users, log, clock, searched, store, ticks, handlers, served>>

\* a call detectTopic(text); the record keeps the text and what it returned
Detect(text) ==
  /\ ret' = [NoCall EXCEPT !.op = "detect", !.arg = text, !.topic = detectTopic(text)]
  /\ UNCHANGED <<loaded, users, log, clock, searched, store, ticks, handlers, served>>

\* a call verifyRef(book, chapter, verse)
Verify(ref) ==
  /\ ret' = [NoCall EXCEPT !.op = "verify", !.ref = ref,
                            !.status = IF verifyRef(ref.book, ref.chapter, ref.verse)
                                        THEN "true" ELSE "false"]
  /\ UNCHANGED <<loaded, users, log, clock, searched, store, ticks, handlers, served>>

\* a call listTopics(): `count` is the number of keys of the catalog
ListTopics ==
  /\ ret' = [NoCall EXCEPT !.op = "listTopics", !.count = Cardinality(DOMAIN topics)]
  /\ UNCHANGED <<loaded, users, log, clock, searched, store, ticks, handlers, served>>

\* The lookups, the selector and the scheduler over each usable corpus
InitRead ==
  /\ \E i \in 1..Len(ReadCorpora) : kjvRaw = ReadCorpora[i]
  /\ kjvIndex = LoadKjv(kjvRaw).index
  /\ kjvVerses = LoadKjv(kjvRaw).verses
  /\ keywordMap = KeywordList
  /\ phase = "serving"
  /\ topics = CatalogRead
  /\ users = <<>>
  /\ log = <<>>
  /\ tzOffset \in DefaultTimeZones
  /\ now = (FirstTick - 60 * tzOffset) \div 60
  /\ minute = (FirstTick - 60 * tzOffset) % 60
  /\ ret = NoCall
  /\ ticks = <<>>
  /\ handlers = <<>>
  /\ served = <<>>
  /\ searched = <<>>
  /\ store = Sound

NextRead ==
  \/ Start(1)
  \/ \E text \in ReadTopicArgs : TopicCommand(1, text)
  \/ Select(1, DefaultCount)
  \/ \E query \in ReadQueries, limit \in ReadLimits : Search(query, limit)
  \/ \E topicName \in ReadTopics : TopicVerses(topicName)
  \/ \E text \in ReadTexts : Detect(text)
  \/ \E ref \in ReadRefs : Verify(ref)
  \/ Tick
  \/ SendSettlesTo(1)
  \/ NextMinute(LastReadTick)

SpecRead == InitRead /\ [][NextRead]_vars

\* a command no bot.command handler takes
c_amen == <<"/", "a", "m", "e", "n">>
TextMessages == {c_amen, s_xyzxyz, s_faith}

\* The text handler for one sender who is not registered yet
InitText ==
  /\ InitCorpus
  /\ topics \in Catalogs
  /\ users = <<>>
  /\ log = <<>>
  /\ now = 0
  /\ tzOffset \in DefaultTimeZones
  /\ ret = NoCall
  /\ Idle

NextText ==
  \/ \E message \in TextMessages : TextMessage(1, message)
  \/ \E h \in 1..MaxHandlers, replied \in BOOLEAN : ClaudeSettles(h, replied)
  \/ \E text \in RaceTopicArgs : TopicCommand(1, text)
  \/ \E query \in ReadQueries, limit \in ReadLimits : Search(query, limit)
  \/ \E topicName \in ReadTopics : TopicVerses(topicName)
  \/ \E text \in ReadTexts : Detect(text)
  \/ \E ref \in ReadRefs : Verify(ref)
  \/ ListTopics
  \/ AdvanceClock(MaxDay)

SpecText == InitText /\ [][NextText]_vars

\* Searches between selections and scheduler runs for one subscriber
InitSearch ==
  /\ Loaded(KjvFear)
  /\ topics = CatalogFear
  /\ users = <<>>
  /\ log = <<>>
  /\ tzOffset \in DefaultTimeZones
  /\ now = (FirstTick - 60 * tzOffset) \div 60
  /\ minute = (FirstTick - 60 * tzOffset) % 60
  /\ ret = NoCall
  /\ ticks = <<>>
  /\ handlers = <<>>
  /\ served = <<>>
  /\ searched = <<>>
  /\ store = Sound

NextSearch ==
  \/ Start(1)
  \/ Select(1, 1)
  \/ \E a \in SearchArgs : SearchNoted(a[1], a[2])
  \/ Tick
  \/ SendSettlesTo(1)

SpecSearch == InitSearch /\ [][NextSearch]_vars

\* verifyRef and detectTopic over each corpus and keyword file
InitLookup ==
  /\ \E i \in 1..Len(LookupCorpora) : kjvRaw = LookupCorpora[i]
  /\ kjvIndex = LoadKjv(kjvRaw).index
  /\ kjvVerses = LoadKjv(kjvRaw).verses
  /\ \E i \in 1..Len(KeywordFiles) : keywordMap = ObjectEntries(KeywordFiles[i])
  /\ phase = "serving"
  /\ topics = CatalogRead
  /\ users = <<>>
  /\ log = <<>>
  /\ tzOffset \in DefaultTimeZones
  /\ now = 0
  /\ ret = NoCall
  /\ Idle

NextLookup ==
  \/ \E book \in LookupBooks, chapter \in LookupChapters, verse \in LookupVerses :
       Verify([book |-> book, chapter |-> chapter, verse |-> verse])
  \/ \E text \in LookupTexts : Detect(text)
  \/ \E topicName \in ReadTopics : TopicVerses(topicName)

SpecLookup == InitLookup /\ [][NextLookup]_vars

(***************************************************************************)
(* storage.js on files that do not hold a JSON object.  While a file does   *)
(* not hold an object, the variable of its content (`users`, `log`) is      *)
(* empty.                                                                   *)
(***************************************************************************)
StoreShapes ==
  {"absent", "empty", "garbage", "null", "number", "string", "array", "object"}

\* a non-empty array of subscriber records in data/users.json
StoredArray == <<[user_id |-> 2] @@ USER_DEFAULTS>>

\* readJson(filePath, fallback): the fallback for a missing file, an empty
\* one, a bare [] and text JSON.parse throws on; else what JSON.parse returns
readJson(shape, fallback) ==
  IF shape \in {"absent", "empty", "garbage"} THEN fallback ELSE shape

\* readJson(USERS_PATH, {}) and readJson(LOG_PATH, {})
readUsers == readJson(store.users, "object")
readLog == readJson(store.log, "object")

\* Object.values(readUsers()): the values of an object, the elements of an
\* array, the characters of a string, nothing for a number
ObjectValues ==
  IF readUsers = "object" THEN Values(users)
  ELSE IF readUsers = "array" THEN store.items
  ELSE <<>>

\* getUsersByTime(hhmm) on the stored file: Object.values(null) throws, and
\* no character of a string has a slot
UsersByTime(hhmm) ==
  IF readUsers = "null" THEN [status |-> "TypeError", users |-> <<>>]
  ELSE IF readUsers = "string" THEN [status |-> "ok", users |-> <<>>]
  ELSE [status |-> "ok",
        users |-> SelectSeq(ObjectValues,
                            LAMBDA u : u.morning = hhmm \/ u.midday = hhmm
                                         \/ u.afternoon = hhmm \/ u.evening = hhmm)]

\* getSentVersesToday(userId, date) on the stored file: null[key] throws, and
\* a number, a string and an array have no property `${userId}|${date}`
SentVersesToday(userId, date) ==
  IF readLog = "null" THEN [status |-> "TypeError", refs |-> EmptyBag]
  ELSE IF readLog = "object"
       THEN [status |-> "ok", refs |-> getSentVersesToday(userId, date)]
       ELSE [status |-> "ok", refs |-> EmptyBag]

\* a call getUsersByTime(hhmm)
ReadDirectory(hhmm) ==
  /\ ret' = [NoCall EXCEPT !.op = "getUsersByTime", !.arg = hhmm,
                           !.status = UsersByTime(hhmm).status,
                           !.count = Len(UsersByTime(hhmm).users)]
  /\ UNCHANGED <<loaded, users, log, clock, searched, store, ticks, handlers, served>>

\* a call getSentVersesToday(userId, date)
ReadLedger(userId, date) ==
  /\ ret' = [NoCall EXCEPT !.op = "getSentVersesToday", !.user = userId,
                           !.today = date,
                           !.status = SentVersesToday(userId, date).status,
                           !.sentBefore = BagToSet(SentVersesToday(userId, date).refs)]
  /\ UNCHANGED <<loaded, users, log, clock, searched, store, ticks, handlers, served>>

\* the run of sendScheduledVerses left at getUsersByTime(hhmm)
DirectoryThrows(hhmm) ==
  /\ ticks' = MapSet(ticks, Minutes, [NewRun(hhmm, <<>>, {}) EXCEPT !.pc = "aborted"])
  /\ ret' = [TickCall EXCEPT !.status = "TypeError"]
  /\ UNCHANGED <<log, served, topics, store>>

\* the run left at the j-th subscriber, in getSentVersesToday or in logVerse
LedgerThrows(run, j) ==
  /\ ticks' = MapSet(ticks, Minutes,
                     [run EXCEPT !.i = j, !.pc = "aborted",
                                 !.selected = Append(@, run.users[j].user_id)])
  /\ ret' = CallOf(run.users[j], Raised("TypeError"))
  /\ UNCHANGED <<log, served, topics, store>>

\* The run on a ledger that is a number, a string or an array: the reads
\* find nothing sent.  logVerse of the first pick does log[key] = [] on the
\* value: a number and a string throw; an array takes the property, and
\* JSON.stringify writes the array without it.
RunOnValue(run, o) ==
  IF o.run.attempts = <<>>
  THEN /\ ticks' = MapSet(ticks, Minutes, o.run)
       /\ ret' = o.call
       /\ UNCHANGED <<log, served, topics, store>>
  ELSE IF readLog = "array"
       THEN /\ ticks' = MapSet(ticks, Minutes, o.run)
            /\ served' = o.served
            /\ ret' = o.call
            /\ topics' = CatalogAfterSort(topics, TopicNameOf(o.call), o.call.verses)
            /\ UNCHANGED <<log, store>>
       ELSE LedgerThrows([run EXCEPT !.selected = SubSeq(o.run.selected, 1,
                                                           Len(o.run.selected) - 1),
                                     !.empty = o.run.empty], o.run.i)

\* The run on a ledger that is an object or the fallback {}: logVerse writes
\* the object back, so the file holds an object from the first pick on
RunOnObject(o) ==
  /\ ticks' = MapSet(ticks, Minutes, o.run)
  /\ log' = o.log
  /\ served' = o.served
  /\ ret' = o.call
  /\ topics' = CatalogAfterSort(topics, TopicNameOf(o.call), o.call.verses)
  /\ store' = IF o.run.attempts = <<>> THEN store ELSE [store EXCEPT !.log = "object"]

\* cron.schedule('* * * * *', sendScheduledVerses) on the stored files: the
\* run of this minute starts and goes up to its first await or its error
TickOnStore ==
  /\ phase = "serving"
  /\ Minutes \notin DOMAIN ticks
  /\ IF UsersByTime(currentHHMM).status # "ok" THEN DirectoryThrows(currentHHMM)
     ELSE LET matched == UsersByTime(currentHHMM).users
              run == NewRun(currentHHMM, matched,
                            {matched[i].user_id : i \in 1..Len(matched)})
          IN  IF readLog = "null" /\ matched # <<>> THEN LedgerThrows(run, 1)
              ELSE \E o \in RunLoop(run, 1, TickCall) :
                     IF readLog = "object" THEN RunOnObject(o) ELSE RunOnValue(run, o)
  /\ UNCHANGED <<corpus, users, clock, searched, handlers>>

\* the send a run awaits settles, on the stored files
SendSettlesOnStore(ok) ==
  /\ Minutes \in DOMAIN ticks
  /\ ticks[Minutes].pc = "await"
  /\ LET run == Settled(ticks[Minutes], ok)
     IN  \E o \in RunLoop(run, ResumeAt(run, ok), TickCall) :
           IF readLog = "object" THEN RunOnObject(o) ELSE RunOnValue(run, o)
  /\ UNCHANGED <<corpus, users, clock, searched, handlers>>

StoreTimes == {h_0730, h_1200}

\* One scheduler minute and the two read operations, over every content of
\* the two files
InitStore ==
  /\ Loaded(KjvArray)
  /\ topics = CatalogTick
  /\ store \in [users : StoreShapes, log : StoreShapes, items : {<<>>, StoredArray}]
  /\ store.items = IF store.users = "array" THEN StoredArray ELSE <<>>
  /\ users = IF store.users = "object" THEN upsertUser(upsertUser(<<>>, 1), 3) ELSE <<>>
  /\ log = <<>>
  /\ tzOffset \in DefaultTimeZones
  /\ now = (FirstTick - 60 * tzOffset) \div 60
  /\ minute = (FirstTick - 60 * tzOffset) % 60
  /\ ticks = <<>>
  /\ handlers = <<>>
  /\ served = <<>>
  /\ searched = <<>>
  /\ ret = NoCall

NextStore ==
  \/ \E hhmm \in StoreTimes : ReadDirectory(hhmm)
  \/ \E u \in {1, 2} : ReadLedger(u, todayDate)
  \/ TickOnStore
  \/ \E ok \in BOOLEAN : SendSettlesOnStore(ok)

SpecStore == InitStore /\ [][NextStore]_vars

(***************************************************************************)
(* storage.js upsertUser and updateUser on the whole subscriber record.     *)
(* No code of the program reads `username` or `registered_at`; the          *)
(* specifications above leave these two fields out of the record.           *)
(***************************************************************************)
n_ada == <<"a", "d", "a">>
n_countess == <<"c", "o", "u", "n", "t", "e", "s", "s">>
n_Grace == <<"G", "r", "a", "c", "e">>

\* ctx.from of the updates the bot receives: the first sender changes her
\* username, the second has none, the third has no name at all
Senders ==
  {[id |-> 1, username |-> n_ada, first_name |-> n_ada],
   [id |-> 1, username |-> n_countess, first_name |-> n_ada],
   [id |-> 2, username |-> Null, first_name |-> n_Grace],
   [id |-> 2, username |-> Null, first_name |-> Null]}

\* upsertUser that refreshes the username of a stored record
upsertUserAt_Refresh(us, userId, username, stamp) ==
  IF userId \in DOMAIN us THEN [us EXCEPT ![userId].username = username]
  ELSE MapSet(us, userId, [user_id |-> userId, username |-> username,
                           registered_at |-> stamp] @@ USER_DEFAULTS)

\* upsertUser(userId, username) at the instant `stamp`:
\* if (!users[key]) users[key] = { user_id, username, ...USER_DEFAULTS,
\*                                 registered_at: new Date().toISOString() }
upsertUserAt(us, userId, username, stamp) ==
  IF userId \in DOMAIN us THEN us
  ELSE MapSet(us, userId, [user_id |-> userId, username |-> username,
                           registered_at |-> stamp] @@ USER_DEFAULTS)

\* updateUser(userId, fields): users[key] = { ...users[key], ...fields }
updateUserFields(us, userId, fields) ==
  IF userId \notin DOMAIN us THEN us
  ELSE [us EXCEPT ![userId] = fields @@ @]

\* ctx.from.username ?? ctx.from.first_name ?? String(userId)
UsernameOf(from) ==
  IF from.username # Null THEN from.username
  ELSE IF from.first_name # Null THEN from.first_name ELSE NumStr(from.id)

\* bot.js registerUser(ctx)
registerUser(us, from) == upsertUserAt(us, from.id, UsernameOf(from), now)

ProfileCall(op, from) ==
  [NoCall EXCEPT !.op = op, !.user = from.id, !.arg = UsernameOf(from)]

\* bot.command('start') from the sender `from`
StartFrom(from) ==
  /\ users' = registerUser(users, from)
  /\ ret' = ProfileCall("start", from)
  /\ UNCHANGED <<loaded, log, clock, searched, store, ticks, handlers, served>>

\* bot.command('topic') from the sender `from`
TopicFrom(from, text) ==
  /\ users' = IF toLowerCase(Trim(text)) = <<>> THEN registerUser(users, from)
               ELSE updateUserFields(registerUser(users, from), from.id,
                                     [topic |-> toLowerCase(Trim(text))])
  /\ ret' = [ProfileCall("topic", from) EXCEPT !.words = <<text>>]
  /\ UNCHANGED <<loaded, log, clock, searched, store, ticks, handlers, served>>

\* { [slot]: time }
SlotField(slot, time) ==
  IF slot = n_morning THEN [morning |-> time]
  ELSE IF slot = n_midday THEN [midday |-> time]
  ELSE IF slot = n_afternoon THEN [afternoon |-> time]
  ELSE [evening |-> time]

\* bot.command('settime') from the sender `from`
SetTimeFrom(from, slotWord, time) ==
  /\ users' = IF SetTimeAccepts(toLowerCase(slotWord), time)
               THEN updateUserFields(registerUser(users, from), from.id,
                                     SlotField(toLowerCase(slotWord), time))
               ELSE registerUser(users, from)
  /\ ret' = [ProfileCall("settime", from) EXCEPT !.words = <<slotWord, time>>]
  /\ UNCHANGED <<loaded, log, clock, searched, store, ticks, handlers, served>>

ProfileTopicArgs == {s_faith, <<>>}
n_noon == <<"n", "o", "o", "n">>
ProfileTimeArgs == {<<n_Morning, h_1200>>, <<n_morning, h_800>>, <<n_noon, h_1200>>}

\* a call updateUser(userId, { topic }) for an id with or without a record
UpdateUser(userId, topic) ==
  /\ users' = updateUserFields(users, userId, [topic |-> topic])
  /\ ret' = [NoCall EXCEPT !.op = "updateUser", !.user = userId, !.words = <<topic>>]
  /\ UNCHANGED <<loaded, log, clock, searched, store, ticks, handlers, served>>

\* The commands that register and update a subscriber, over time
InitProfile ==
  /\ Loaded(KjvArray)
  /\ topics = CatalogTick
  /\ users = <<>>
  /\ log = <<>>
  /\ now = 0
  /\ tzOffset \in DefaultTimeZones
  /\ ret = NoCall
  /\ Idle

NextProfile ==
  \/ \E from \in Senders : StartFrom(from)
  \/ \E from \in Senders, text \in ProfileTopicArgs : TopicFrom(from, text)
  \/ \E from \in Senders, a \in ProfileTimeArgs : SetTimeFrom(from, a[1], a[2])
  \/ \E userId \in {1, 3} : UpdateUser(userId, s_faith)
  \/ AdvanceClock(MaxDay)

SpecProfile == InitProfile /\ [][NextProfile]_vars

(***************************************************************************)
(* The selector over data files that name a passage more than once          *)
(***************************************************************************)
\* the array corpus with Romans 1:17 a second time, text and all
KjvSame ==
  Append(KjvArray, [book |-> b_Romans, chapter |-> 1, verse |-> 17, text |-> t_Rom117])
\* a catalog whose default topic lists Hebrews 11:1 twice; 'faith' is no label
CatalogSame ==
  [t \in {s_encouragement} |-> <<r_Heb111, r_Heb111, r_1Jn48>>]
SameTopicArgs == {s_faith, s_encouragement}

InitSame ==
  /\ Loaded(KjvSame)
  /\ topics = CatalogSame
  /\ users = <<>>
  /\ log = <<>>
  /\ now = 0
  /\ tzOffset \in DefaultTimeZones
  /\ ret = NoCall
  /\ Idle

NextSame ==
  \/ Start(1)
  \/ \E text \in SameTopicArgs : TopicCommand(1, text)
  \/ \E count \in 1..MaxCount : Select(1, count)
  \/ AdvanceClock(MaxDay)

SpecSame == InitSame /\ [][NextSame]_vars

(***************************************************************************)
(* Startup: the top level of verses.js, then index.js                      *)
(***************************************************************************)
\* the module graph is evaluated: verses.js builds the index from the raw
\* corpus and exits the process, or goes on to load topics.json and
\* keyword_map.json
LoadCorpus ==
  /\ phase = "boot"
  /\ IF LoadKjv(kjvRaw).fatal
     THEN /\ phase' = "fatal"
          /\ UNCHANGED <<kjvIndex, kjvVerses, topics, keywordMap>>
     ELSE /\ phase' = "ready"
          /\ kjvIndex' = LoadKjv(kjvRaw).index
          /\ kjvVerses' = LoadKjv(kjvRaw).verses
          /\ topics' = CatalogRace
          /\ keywordMap' = KeywordList
  /\ UNCHANGED <<kjvRaw, users, log, clock, searched, store, ret, ticks, handlers, served>>

\* app.listen(PORT, ...): the webhook receiver accepts updates
Listen ==
  /\ phase = "ready"
  /\ phase' = "listening"
  /\ UNCHANGED <<kjvRaw, kjvIndex, kjvVerses, topics, keywordMap, users, log, clock, searched, store,
                 ret, ticks, handlers, served>>

\* the end of the listen callback: startScheduler()
StartScheduler ==
  /\ phase = "listening"
  /\ phase' = "serving"
  /\ UNCHANGED <<kjvRaw, kjvIndex, kjvVerses, topics, keywordMap, users, log, clock, searched, store,
                 ret, ticks, handlers, served>>

\* a /topic command reaches the webhook receiver
TopicUpdate(u, text) == phase \in Accepting /\ TopicCommand(u, text)

\* The process starts on one of the raw corpora; users.json holds a
\* subscriber of an earlier run
InitBoot ==
  /\ \E i \in 1..Len(RawCorpora) : kjvRaw = RawCorpora[i]
  /\ phase = "boot"
  /\ kjvIndex = <<>>
  /\ kjvVerses = <<>>
  /\ topics = <<>>
  /\ keywordMap = <<>>
  /\ users = upsertUser(<<>>, 1)
  /\ log = <<>>
  /\ tzOffset \in DefaultTimeZones
  /\ now = (FirstTick - 60 * tzOffset) \div 60
  /\ minute = (FirstTick - 60 * tzOffset) % 60
  /\ ret = NoCall
  /\ ticks = <<>>
  /\ handlers = <<>>
  /\ served = <<>>
  /\ searched = <<>>
  /\ store = Sound

NextBoot ==
  \/ LoadCorpus
  \/ Listen
  \/ StartScheduler
  \/ \E text \in RaceTopicArgs : TopicUpdate(1, text)
  \/ \E message \in RaceMessages : TextMessage(1, message)
  \/ \E h \in 1..MaxHandlers, replied \in BOOLEAN : ClaudeSettles(h, replied)
  \/ Tick
  \/ SendSettlesTo(1)
  \/ NextMinute(FirstTick + MaxTicks * TickStep)

SpecBoot == InitBoot /\ [][NextBoot]_vars

(***************************************************************************)
(* Properties.  Vocabulary of the specification, in terms of the state.    *)
(***************************************************************************)
\* the latest operation was a getVersesForUser call
IsSelect == ret.op = "select"

\* t is a label of the Topic Catalog
IsLabel(t) == t \in DOMAIN topics

\* The candidate pool of section 4.4 for topic t, as ref strings in pool
\* order: the resolvable refs of a catalog label, else the top search hits
ResolvableRefs(refs) ==
  [i \in 1..Len(SelectSeq(refs, HasText)) |-> formatRef(SelectSeq(refs, HasText)[i])]
HitRefs(hits) == [i \in 1..Len(hits) |-> hits[i].ref]
CandidatePool(t) ==
  IF IsLabel(t) THEN ResolvableRefs(topics[t])
  ELSE HitRefs(searchVerses(t, PoolLimit))

Range(f) == {f[i] : i \in DOMAIN f}

\* how many entries of pool are not in the set sent
UnseenCount(pool, sent) == Cardinality({i \in 1..Len(pool) : pool[i] \notin sent})

\* the refs the latest call returned
ResultRefs == RefsOf(ret.verses)

\* the ledger entry of the latest call's subscriber and day
RetEntry == getSentVersesToday(ret.user, ret.today)

\* C1: No-repeat-before-exhaustion.  When the candidate pool of the
\* subscriber's topic is non-empty and at least one of its refs is not in
\* today's sent set at the moment of the call, getVersesForUser returns only
\* refs that were absent from that sent set.
NoRepeatHolds(pool) ==
  UnseenCount(pool, ret.sentBefore) >= 1 => ResultRefs \cap ret.sentBefore = {}
C1_NoRepeatBeforeExhaustion ==
  IsSelect => NoRepeatHolds(CandidatePool(ret.topic))
C1_Witness ==
  /\ IsSelect
  /\ ret.sentBefore # {}
  /\ UnseenCount(CandidatePool(ret.topic), ret.sentBefore) >= 1
  /\ ret.verses # <<>>

\* C2: No top-up with repeats.  When u >= 1 entries of the candidate pool are
\* unseen today, getVersesForUser(count) returns exactly min(count, u)
\* entries; with a 3-ref pool the second call of a day with count 2 returns
\* exactly the one remaining unseen ref.
ExactCountHolds(pool) ==
  UnseenCount(pool, ret.sentBefore) >= 1 =>
    Len(ret.verses) = Min(ret.count, UnseenCount(pool, ret.sentBefore))
C2_NoTopUp ==
  IsSelect => ExactCountHolds(CandidatePool(ret.topic))
C2_Witness ==
  /\ IsSelect
  /\ ret.topic = s_faith
  /\ ret.count = DefaultCount
  /\ Len(CandidatePool(s_faith)) = 3
  /\ Cardinality(ret.sentBefore \cap Range(CandidatePool(s_faith))) = 2
  /\ Len(ret.verses) = 1

\* C3: Exhaustion fallback.  When every ref of the non-empty candidate pool
\* is already in today's sent set, getVersesForUser(count) returns
\* min(count, pool size) entries, all drawn from the pool, never an empty
\* result.
ExhaustedHolds(pool) ==
  (pool # <<>> /\ Range(pool) \subseteq ret.sentBefore) =>
    /\ Len(ret.verses) = Min(ret.count, Len(pool))
    /\ ret.verses # <<>>
    /\ ResultRefs \subseteq Range(pool)
C3_ExhaustionFallback ==
  IsSelect => ExhaustedHolds(CandidatePool(ret.topic))
C3_Witness ==
  /\ IsSelect
  /\ Len(CandidatePool(ret.topic)) >= 2
  /\ Range(CandidatePool(ret.topic)) \subseteq ret.sentBefore
  /\ Len(ret.verses) = DefaultCount

\* C4: Topic fidelity.  When the subscriber's topic is a catalog label, every
\* entry getVersesForUser returns is a ref of that label's list that resolves
\* in the index, with the text the index holds for it.
FromList(v, refs) ==
  \E i \in 1..Len(refs) :
    /\ formatRef(refs[i]) = v.ref
    /\ lookupText(refs[i]) # Null
    /\ lookupText(refs[i]) = v.text
C4_TopicFidelity ==
  (IsSelect /\ IsLabel(ret.topic)) =>
    \A i \in 1..Len(ret.verses) : FromList(ret.verses[i], topics[ret.topic])
C4_Witness ==
  /\ IsSelect
  /\ IsLabel(ret.topic)
  /\ Len(topics[ret.topic]) > Len(CandidatePool(ret.topic))
  /\ ret.verses # <<>>

\* C5: Every call records what it picked.  Right after getVersesForUser
\* returns, every ref of the result is in the ledger entry of the
\* subscriber for the day of the call.
C5_PicksAreLogged ==
  IsSelect => \A r \in ResultRefs : BagIn(r, RetEntry)
C5_Witness ==
  /\ IsSelect
  /\ Len(ret.verses) = DefaultCount
  /\ now >= 24 * (RetentionDays + 1)
  /\ Cardinality(DOMAIN log) >= 2

\* C6: Ledger append is idempotent.  Every ref occurs at most once in every
\* ledger entry, and a call all of whose picked refs were already in the
\* day's entry leaves the set of that entry as it was.
C6_AppendIdempotent ==
  /\ \A k \in DOMAIN log : \A r \in BagToSet(log[k]) : CopiesIn(r, log[k]) = 1
  /\ (IsSelect /\ ResultRefs \subseteq ret.sentBefore) =>
       BagToSet(RetEntry) = ret.sentBefore
C6_Witness ==
  /\ IsSelect
  /\ ret.verses # <<>>
  /\ ResultRefs \subseteq ret.sentBefore
  /\ BagToSet(RetEntry) = ret.sentBefore

\* C7: Ledger retention.  After every append for `date`, the ledger holds
\* no entry dated more than 7 days before `date`, and every entry dated at
\* most 7 days before `date` is still there.  A call that returns picks has
\* appended each of them for the day of the call.
C7_RetentionByDate ==
  [][(ret'.op = "select" /\ ret'.verses # <<>>) =>
       /\ \A k \in DOMAIN log' : k[2] >= ret'.today - RetentionDays
       /\ \A k \in DOMAIN log :
            k[2] >= ret'.today - RetentionDays => k \in DOMAIN log']_vars

\* the call reached `return getVersesForUser({ ...user, topic: 'encouragement' })`:
\* the catalog lookup searched nothing for the topic and its search is empty
FellBack ==
  /\ ret.topic \notin DOMAIN topics \cup ObjectPrototypeKeys
  /\ searchVerses(ret.topic, PoolLimit) = <<>>

\* C8 as claimed, for a catalog label: when none of the label's refs resolve
\* (or its list is empty) and the default topic 'encouragement' has a
\* non-empty pool, getVersesForUser returns passages of the default topic.
DefaultServed(pool) ==
  pool # <<>> =>
    /\ ret.status = "ok"
    /\ ret.verses # <<>>
    /\ ResultRefs \subseteq Range(pool)
C8_FallbackForLabels ==
  (IsSelect /\ IsLabel(ret.topic) /\ CandidatePool(ret.topic) = <<>>) =>
    DefaultServed(CandidatePool(s_encouragement))

\* C8, amended: the fallback to 'encouragement' is taken by free-text topics
\* only.  When the catalog lookup finds nothing for the topic and its search
\* returns nothing, getVersesForUser returns passages of the default topic
\* when that topic's pool is non-empty; for a catalog label none of whose
\* refs resolve, or whose list is empty, it returns an empty result.
C8_FallbackForFreeText ==
  /\ (IsSelect /\ FellBack) => DefaultServed(CandidatePool(s_encouragement))
  /\ (IsSelect /\ IsLabel(ret.topic) /\ CandidatePool(ret.topic) = <<>>) =>
       (ret.status = "ok" /\ ret.verses = <<>>)
C8_Witness ==
  /\ IsSelect
  /\ FellBack
  /\ ret.verses # <<>>
  /\ ResultRefs \subseteq Range(CandidatePool(s_encouragement))

\* C9: getVersesForUser falls back at most once.  When a call falls back and
\* the default topic yields an empty pool too, it returns an empty result.
C9_FallsBackOnce ==
  (IsSelect /\ FellBack /\ CandidatePool(s_encouragement) = <<>>) =>
    (ret.status = "ok" /\ ret.verses = <<>>)

\* C10: an unknown topic is never an error.  For every stored topic that is
\* not a label of the catalog, getVersesForUser returns a result.  Stated
\* for the catalogs that define the default label, where every fallback ends.
C10_UnknownTopicNoError ==
  (IsSelect /\ ~IsLabel(ret.topic) /\ IsLabel(s_encouragement)) =>
    ret.status = "ok"

\* the matches of the free-text query t, best first
Ranked(t) == SortByScore(Scored(QueryWords(t)), Len(QueryWords(t)))

\* C11: Free-text candidate pool.  When the subscriber's topic is not a
\* catalog label and its search is non-empty, every ref getVersesForUser
\* returns is one of the first 20 matches in rank order, and no ref of a match
\* ranked lower is returned.
InTop(r, ranked) ==
  /\ \E i \in 1..Min(PoolLimit, Len(ranked)) : ranked[i].ref = r
  /\ \A i \in (PoolLimit + 1)..Len(ranked) : ranked[i].ref # r
C11_FreeTextPool ==
  (IsSelect /\ ~IsLabel(ret.topic) /\ Ranked(ret.topic) # <<>>) =>
    \A r \in ResultRefs : InTop(r, Ranked(ret.topic))
C11_Witness ==
  /\ IsSelect
  /\ ret.topic = s_hopefaith
  /\ Len(Ranked(ret.topic)) > PoolLimit
  /\ ret.sentBefore # {}
  /\ Ranked(ret.topic)[1].ref \in ResultRefs

\* vocabulary for the runs of the scheduler
RunIds(run) == [i \in 1..Len(run.users) |-> run.users[i].user_id]
NoDup(seq) == \A i, j \in 1..Len(seq) : i # j => seq[i] # seq[j]
Ended(run) == run.pc \in {"done", "aborted"}

\* C12: Slot matching.  A run of the scheduler for the time string T calls
\* the selector only for subscribers that had a slot equal to T, and once it
\* has ended it has called the selector for every such subscriber.
C12_SlotMatching ==
  \A T \in DOMAIN ticks :
    /\ Range(ticks[T].selected) \subseteq ticks[T].due
    /\ Ended(ticks[T]) => ticks[T].due \subseteq Range(ticks[T].selected)

\* C13: A subscriber is matched, selected for and sent to at most once in a
\* run, also when two of its slots hold the same time.
C13_OncePerTick ==
  \A T \in DOMAIN ticks :
    /\ NoDup(RunIds(ticks[T]))
    /\ NoDup(ticks[T].selected)
    /\ NoDup(ticks[T].attempts)
C13_Witness ==
  \E T \in DOMAIN ticks : \E i \in 1..Len(ticks[T].users) :
    /\ ticks[T].users[i].morning = ticks[T].hhmm
    /\ ticks[T].users[i].midday = ticks[T].hhmm
    /\ ticks[T].users[i].user_id \in Range(ticks[T].attempts)
    /\ Ended(ticks[T])

\* C14: Partial-failure isolation.  When the send to a matched subscriber has
\* failed, the run that has ended has called the selector for every matched
\* subscriber after it, and has sent to each of those whose selection was
\* not empty.
C14_FailureIsolation ==
  \A T \in DOMAIN ticks : \A i, j \in 1..Len(ticks[T].users) :
    (Ended(ticks[T]) /\ RunIds(ticks[T])[i] \in ticks[T].failed /\ i < j) =>
      /\ RunIds(ticks[T])[j] \in Range(ticks[T].selected)
      /\ RunIds(ticks[T])[j] \notin ticks[T].empty =>
           RunIds(ticks[T])[j] \in Range(ticks[T].attempts)

\* subscriber u is matched by a run that awaits the send to an earlier one
Behind(u) ==
  \E T \in DOMAIN ticks :
    /\ ticks[T].pc = "await"
    /\ \E j \in (ticks[T].i + 1)..Len(ticks[T].users) : ticks[T].users[j].user_id = u

\* C15 as claimed: a send to subscriber 1 that never completes does not block
\* the subscribers matched after it in the same run; each of them gets its
\* turn while that send is pending.
C15_SlowSendDoesNotBlock ==
  \A u \in TickUsers \ {1} : Behind(u) ~> ~Behind(u)

\* C15, amended: the sends of a run are made in turn.  A run has at most one
\* send that has not settled; while it has one, it awaits it, and it has
\* called the selector for that subscriber and the ones matched before it
\* only: the subscribers matched after it wait until the send has settled.
Unsettled(run) == Range(run.attempts) \ run.settled
C15_SendsInTurn ==
  \A T \in DOMAIN ticks :
    /\ Cardinality(Unsettled(ticks[T])) <= 1
    /\ Unsettled(ticks[T]) # {} =>
         /\ ticks[T].pc = "await"
         /\ Unsettled(ticks[T]) = {RunIds(ticks[T])[ticks[T].i]}
         /\ ticks[T].selected = SubSeq(RunIds(ticks[T]), 1, ticks[T].i)
C15_Witness ==
  \E T \in DOMAIN ticks :
    /\ T < Minutes
    /\ ticks[T].pc = "await"
    /\ ticks[T].i < Len(ticks[T].users)
    /\ ticks[T].failed # {}

\* C16: No retry within a run.  A run makes at most one send attempt for a
\* matched subscriber, whether the attempt succeeds or fails, and none for a
\* subscriber whose selection was empty.
C16_NoRetry ==
  \A T \in DOMAIN ticks : \A u \in Range(RunIds(ticks[T])) :
    /\ Cardinality({i \in 1..Len(ticks[T].attempts) : ticks[T].attempts[i] = u}) <= 1
    /\ u \in ticks[T].empty => u \notin Range(ticks[T].attempts)
    /\ u \in ticks[T].failed => u \in Range(ticks[T].attempts)
C16_Witness ==
  \E T \in DOMAIN ticks :
    /\ ticks[T].pc = "done"
    /\ ticks[T].failed # {}
    /\ ticks[T].empty # {}
    /\ Len(ticks[T].attempts) + Cardinality(ticks[T].empty) = Len(ticks[T].users)

\* C17: Selections for one subscriber on one day are serialized.  Whatever
\* the interleaving of overlapping scheduler runs and text handlers, a
\* getVersesForUser call returns a ref an earlier call of the same day
\* returned to the same subscriber only when no ref of its pool was left
\* that no call had returned yet.
SelectSerialized(call, before) ==
  RefsOf(call.verses) \cap before # {} =>
    UnseenCount(CandidatePool(call.topic), before) = 0
C17_SelectsSerialized ==
  [][(ret'.op = "select" /\ ret'.status = "ok")
       => SelectSerialized(ret', ServedOn(served, ret'.user, ret'.today))]_vars
C17_Witness ==
  /\ IsSelect
  /\ ret.sentBefore # {}
  /\ ret.verses # <<>>
  /\ ResultRefs \cap ret.sentBefore = {}
  /\ \E T \in DOMAIN ticks : ticks[T].pc = "await" /\ ret.user \in Range(RunIds(ticks[T]))
  /\ \E h \in 1..Len(handlers) : handlers[h].user.user_id = ret.user

\* C18: Fatal startup on an unusable corpus.  If the raw corpus is absent,
\* is an empty sequence, or has no usable entry, startup ends in the fatal
\* state; and while the index is empty no scheduler run has started, no
\* text handler has run and no operation has been served.
UsableEntries(raw) ==
  IF raw.shape = "array" THEN {i \in 1..Len(raw.items) : Usable(raw.items[i])}
  ELSE IF raw.shape = "object"
       THEN {i \in 1..Len(raw.items) :
               /\ raw.items[i].text # <<>>
               /\ UsableKey(KeyParts(SplitDots(raw.items[i].key, 1, <<>>, <<>>)))}
       ELSE {}
Unusable(raw) ==
  \/ raw.shape = "absent"
  \/ raw.shape = "array" /\ raw.items = <<>>
  \/ UsableEntries(raw) = {}
C18_FatalStartup ==
  /\ (phase # "boot" /\ Unusable(kjvRaw)) => phase = "fatal"
  /\ kjvIndex = <<>> => (ticks = <<>> /\ handlers = <<>> /\ ret = NoCall)
C18_Witness ==
  /\ phase = "fatal"
  /\ kjvRaw.shape = "object"
  /\ kjvRaw.items # <<>>

\* C19: Verbatim passages only.  Every (ref, text) pair getVersesForUser,
\* searchVerses and getTopicVerses return is a passage of the loaded corpus:
\* the ref is the reference of a usable entry of data/kjv.json, spaces
\* aside, and the text is that entry's text, trimmed as the index holds it.
EntryRef(raw, i) ==
  IF raw.shape = "array"
  THEN StripSpaces(formatRef(raw.items[i]))
  ELSE KeyParts(SplitDots(raw.items[i].key, 1, <<>>, <<>>)).book
         \o KeyParts(SplitDots(raw.items[i].key, 1, <<>>, <<>>)).chapter \o <<":">>
         \o KeyParts(SplitDots(raw.items[i].key, 1, <<>>, <<>>)).verse
IsPassage(v) ==
  \E i \in UsableEntries(kjvRaw) :
    /\ StripSpaces(v.ref) = EntryRef(kjvRaw, i)
    /\ v.text = Trim(kjvRaw.items[i].text)
ReturnsPassages == ret.op \in {"select", "search", "topicVerses"}
C19_VerbatimPassages ==
  ReturnsPassages => \A i \in 1..Len(ret.verses) : IsPassage(ret.verses[i])
C19_Witness ==
  /\ ret.op = "search"
  /\ \E i \in 1..Len(ret.verses) : toLowerCase(ret.verses[i].text) # ret.verses[i].text

\* C20: The Corpus Index, its ordered passage list, the Topic Catalog with
\* the order of each topic's ref list, and the keyword list are left as they
\* are by every select, search, detect, verify and scheduler step.
ReadOnlyOp(call) ==
  call.op \in {"select", "search", "topicVerses", "detect", "verify", "tick"}
C20_ReadOnlySnapshot ==
  [][ReadOnlyOp(ret') =>
       /\ kjvIndex' = kjvIndex
       /\ kjvVerses' = kjvVerses
       /\ topics' = topics
       /\ keywordMap' = keywordMap]_vars
C20_Witness ==
  /\ IsSelect
  /\ ret.topic \in DOMAIN topics
  /\ Len(ret.verses) = 2
  /\ ret.verses[1].ref = formatRef(topics[ret.topic][2])
  /\ ret.verses[2].ref = formatRef(topics[ret.topic][1])

\* C21: Search score.  The score of a corpus entry is the number of distinct
\* surviving query tokens that are substrings of its lower-cased text: a
\* token repeated in the query or in the passage counts once.
DistinctScore(words, lower) ==
  Cardinality({w \in Range(words) : Includes(lower, w)})
C21_ScoreDistinct ==
  ret.op = "search" =>
    \A i \in 1..Len(kjvVerses) :
      Score(QueryWords(ret.topic), toLowerCase(kjvVerses[i].text))
        = DistinctScore(QueryWords(ret.topic), toLowerCase(kjvVerses[i].text))

\* C22: Search ranking.  search(query, limit) returns the first `limit`
\* entries of the list of all entries with score >= 1, ordered by descending
\* score and, among equal scores, by corpus order; no entry with score 0 is
\* returned and the result has at most `limit` entries.  The score is the
\* one of C21.
EntryScore(query, i) ==
  DistinctScore(QueryWords(query), toLowerCase(kjvVerses[i].text))
Positives(query) == {i \in 1..Len(kjvVerses) : EntryScore(query, i) >= 1}
\* the place of entry i in the ranking of the entries with a score
PlaceOf(query, i) ==
  1 + Cardinality({j \in Positives(query) :
                     \/ EntryScore(query, j) > EntryScore(query, i)
                     \/ EntryScore(query, j) = EntryScore(query, i) /\ j < i})
C22_Ranking ==
  ret.op = "search" =>
    /\ Len(ret.verses) = Min(ret.count, Cardinality(Positives(ret.topic)))
    /\ \A i \in Positives(ret.topic) :
         PlaceOf(ret.topic, i) <= ret.count =>
           ret.verses[PlaceOf(ret.topic, i)] = kjvVerses[i]

\* C23: Search token filtering.  Query tokens of length <= 2 and stopwords
\* add to no score: every verse returned contains a token that is longer
\* and no stopword, a query gives what it gives without such tokens, and a
\* query none of whose tokens survives returns the empty result, no error.
RawTokens(query) == SplitSpaces(StripNonLetters(toLowerCase(query)))
Survives(w) == Len(w) > 2 /\ w \notin STOPWORDS
MatchesSurvivor(query, v) ==
  \E k \in 1..Len(RawTokens(query)) :
    /\ Survives(RawTokens(query)[k])
    /\ Includes(toLowerCase(v.text), RawTokens(query)[k])
C23_TokenFilter ==
  /\ ret.op = "search" =>
       /\ ret.status = "ok"
       /\ \A i \in 1..Len(ret.verses) : MatchesSurvivor(ret.topic, ret.verses[i])
  /\ {<<q_fearnotbestrong, 15>>, <<q_fearstrong, 15>>} \subseteq DOMAIN searched =>
       searched[<<q_fearnotbestrong, 15>>] = searched[<<q_fearstrong, 15>>]
C23_Witness ==
  /\ ret.op = "search"
  /\ ret.topic = q_notbe
  /\ ret.verses = <<>>
  /\ {<<q_fearnotbestrong, 15>>, <<q_fearstrong, 15>>} \subseteq DOMAIN searched
  /\ searched[<<q_fearstrong, 15>>] # <<>>

\* C24: Search determinism.  A call of search returns what the first call
\* for the same query and limit returned, whatever selections, ledger
\* writes and scheduler runs came between the two.
C24_SearchDeterminism ==
  (ret.op = "search" /\ <<ret.topic, ret.count>> \in DOMAIN searched) =>
    ret.verses = searched[<<ret.topic, ret.count>>]
C24_Witness ==
  /\ ret.op = "search"
  /\ <<ret.topic, ret.count>> \in DOMAIN searched
  /\ \E k \in DOMAIN log, i \in 1..Len(ret.verses) : BagIn(ret.verses[i].ref, log[k])
  /\ \E T \in DOMAIN ticks : ticks[T].pc = "done"

\* C25: The ordered passage list parallels the lookup table for both corpus
\* shapes.  After a successful build from an array of passage objects or
\* from a dot-keyed mapping, the ordered list holds the usable passages of
\* the corpus, one entry each, in corpus order.
NthOf(S, k) == CHOOSE i \in S : Cardinality({j \in S : j < i}) = k - 1
C25_ListParallelsIndex ==
  phase \in {"ready", "listening", "serving"} =>
    /\ Len(kjvVerses) = Cardinality(UsableEntries(kjvRaw))
    /\ \A k \in 1..Len(kjvVerses) :
         /\ StripSpaces(kjvVerses[k].ref) = EntryRef(kjvRaw, NthOf(UsableEntries(kjvRaw), k))
         /\ kjvVerses[k].text = Trim(kjvRaw.items[NthOf(UsableEntries(kjvRaw), k)].text)

\* C26: Duplicate corpus keys.  When the source holds several entries with
\* the same normalized key, the lookup table holds one entry for the key and
\* a lookup returns the text of the latest of them.
SameKey(raw, i) == {j \in UsableEntries(raw) : EntryRef(raw, j) = EntryRef(raw, i)}
Latest(raw, i) == CHOOSE j \in SameKey(raw, i) : \A k \in SameKey(raw, i) : k <= j
C26_LatestWins ==
  /\ Cardinality(DOMAIN kjvIndex)
       = Cardinality({EntryRef(kjvRaw, i) : i \in UsableEntries(kjvRaw)})
  /\ ret.op \in {"select", "topicVerses"} =>
       \A n \in 1..Len(ret.verses) : \A i \in UsableEntries(kjvRaw) :
         EntryRef(kjvRaw, i) = StripSpaces(ret.verses[n].ref) =>
           ret.verses[n].text = Trim(kjvRaw.items[Latest(kjvRaw, i)].text)
C26_Witness ==
  /\ ret.op = "topicVerses"
  /\ kjvRaw = ArrayCorpus(KjvTwice)
  /\ \E n \in 1..Len(ret.verses) :
       ret.verses[n] = [ref |-> formatRef(r_1Jn48), text |-> t_Heb111]

\* C27: Lookup and verify ignore whitespace in the book name.  verify(book,
\* chapter, verse) is true exactly when some usable corpus entry has the
\* same chapter and verse and a book name equal to `book` once all
\* whitespace is removed from both.
EntryParts(raw, i) ==
  IF raw.shape = "array"
  THEN [book |-> raw.items[i].book, chapter |-> NumStr(raw.items[i].chapter),
        verse |-> NumStr(raw.items[i].verse)]
  ELSE KeyParts(SplitDots(raw.items[i].key, 1, <<>>, <<>>))
IsLoaded(ref) ==
  \E i \in UsableEntries(kjvRaw) :
    /\ StripSpaces(EntryParts(kjvRaw, i).book) = StripSpaces(ref.book)
    /\ EntryParts(kjvRaw, i).chapter = NumStr(ref.chapter)
    /\ EntryParts(kjvRaw, i).verse = NumStr(ref.verse)
KeywordFile == CHOOSE i \in 1..Len(KeywordFiles) : ObjectEntries(KeywordFiles[i]) = keywordMap
Matching(file, lower) == {k \in 1..Len(file) : Includes(lower, file[k].keyword)}
FirstDefined(file, lower) ==
  IF Matching(file, lower) = {} THEN Null
  ELSE file[CHOOSE k \in Matching(file, lower) : \A j \in Matching(file, lower) : k <= j].topic
C28_FirstMatchWins ==
  ret.op = "detect" =>
    ret.topic = FirstDefined(KeywordFiles[KeywordFile], toLowerCase(ret.arg))

\* C29: whatever the subscriber directory file and the ledger file hold
\* other than a JSON object (nothing, unparseable text, null, a number, a
\* string, a non-empty array), getUsersByTime returns no subscriber,
\* getSentVersesToday returns no ref, neither raises an error, and no run
\* of the scheduler is left by an error.
C29_CorruptIsEmpty ==
  /\ (ret.op = "getUsersByTime" /\ store.users # "object") =>
       (ret.status = "ok" /\ ret.count = 0)
  /\ (ret.op = "getSentVersesToday" /\ store.log # "object") =>
       (ret.status = "ok" /\ ret.sentBefore = {})
  /\ \A T \in DOMAIN ticks : ticks[T].pc # "aborted"

\* C30: the first command of a sender creates the record of the id with the
\* sender's name, the time of the command, topic 'encouragement' and the
\* slots 07:30, 12:00, 16:30, 21:00; afterwards the record stays, /start
\* leaves every field of it as it is, and a command changes at most the
\* topic (/topic) or the slots (/settime) of the record of its own sender.
ProfileFields ==
  {"user_id", "username", "registered_at", "topic",
   "morning", "midday", "afternoon", "evening"}
SlotFields == {"morning", "midday", "afternoon", "evening"}
SameBut(r, s, fields) == \A f \in ProfileFields \ fields : r[f] = s[f]
Fresh(u, username) ==
  [user_id |-> u, username |-> username, registered_at |-> now,
   topic |-> s_encouragement, morning |-> h_0730, midday |-> h_1200,
   afternoon |-> h_1630, evening |-> h_2100]
C30_CreatedOnce ==
  [][\A u \in {from.id : from \in Senders} :
       LET old == IF u \in DOMAIN users THEN users[u] ELSE Fresh(u, ret'.arg)
       IN  /\ u \in DOMAIN users => u \in DOMAIN users'
           /\ (u \notin DOMAIN users /\ u \in DOMAIN users') => ret'.user = u
           /\ u \in DOMAIN users' =>
                /\ DOMAIN users'[u] = ProfileFields
                /\ (ret'.op = "start" \/ ret'.user # u) => SameBut(users'[u], old, {})
                /\ ret'.op = "topic" => SameBut(users'[u], old, {"topic"})
                /\ ret'.op = "settime" => SameBut(users'[u], old, SlotFields)]_vars

\* /start from a sender whose record was created earlier, under another
\* username, and whose topic has been updated since
C30_Witness ==
  /\ ret.op = "start"
  /\ ret.user \in DOMAIN users
  /\ users[ret.user].username # ret.arg
  /\ users[ret.user].registered_at # now
  /\ users[ret.user].topic = s_faith
  /\ users[ret.user].morning = h_0730

\* C31: the refs of one result of getVersesForUser are pairwise distinct,
\* also when the topic's ref list or the corpus names a passage twice.
C31_DistinctRefs ==
  IsSelect => \A i, j \in 1..Len(ret.verses) :
                 ret.verses[i].ref = ret.verses[j].ref => i = j

\* C32: when askClaude gives the text handler no reply (null without an API
\* key, no text, or an error), the handler answers with the first 2 of its
\* context verses when it has any, writing nothing to the ledger, and else
\* with what getVersesForUser returns for the sender; a message that starts
\* with '/' registers nobody and starts no handler.
HandlerEnds(h) == handlers' = Without(handlers, h)
FirstTwo(verses) == [i \in 1..(IF Len(verses) < 2 THEN Len(verses) ELSE 2) |-> verses[i]]
C32_LiveFallback ==
  [][/\ \A h \in 1..Len(handlers) :
          (HandlerEnds(h) /\ ret'.op # "reply") =>
            IF handlers[h].verses # <<>>
            THEN /\ ret'.op = "verses"
                 /\ ret'.verses = FirstTwo(handlers[h].verses)
                 /\ log' = log
            ELSE /\ ret'.op = "select"
                 /\ ret'.user = handlers[h].user.user_id
                 /\ ret'.topic = handlers[h].user.topic
     /\ (ret'.op = "text" /\ ret'.arg # <<>> /\ Head(ret'.arg) = "/") =>
          (users' = users /\ handlers' = handlers)]_vars

\* the handler has answered with 2 of more than 2 context verses
C32_Witness ==
  /\ ret.op = "verses"
  /\ Len(ret.verses) = 2
  /\ ret.count > 2

\* C33: a getVersesForUser call for subscriber s on day d is restricted by
\* the sent set stored under (s, d) alone: while refs of its pool are absent
\* from that set it returns min(count, their number) of them; and it leaves
\* the entry of every other key as it was, or deletes the entry when its
\* date is more than 7 days before d.
EffectivePool(t) ==
  IF IsLabel(t) \/ searchVerses(t, PoolLimit) # <<>> THEN CandidatePool(t)
  ELSE CandidatePool(s_encouragement)
OwnEntryRules(call, own, pool) ==
  /\ call.sentBefore = own
  /\ UnseenCount(pool, own) >= 1 =>
       /\ RefsOf(call.verses) \cap own = {}
       /\ Len(call.verses) = Min(call.count, UnseenCount(pool, own))
C33_LedgerIsolation ==
  [][(ret'.op = "select" /\ ret'.status = "ok") =>
       /\ OwnEntryRules(ret', BagToSet(EntryOf(log, <<ret'.user, ret'.today>>)),
                        EffectivePool(ret'.topic))
       /\ \A k \in DOMAIN log' : k \in DOMAIN log \/ k = <<ret'.user, ret'.today>>
       /\ \A k \in DOMAIN log \ {<<ret'.user, ret'.today>>} :
            IF k \in DOMAIN log' THEN log'[k] = log[k]
            ELSE k[2] < ret'.today - RetentionDays]_vars

\* C34: the ledger changes only in a getVersesForUser call.  searchVerses,
\* detectTopic, verifyRef, listTopics and getTopicVerses leave it as it is,
\* and so does the text handler when the message arrives and when it answers
\* with Claude's reply or with its context verses.
C34_OnlySelectWrites ==
  [][log' # log => ret'.op = "select"]_vars

\* the handler has answered with context verses, the ledger holds an entry of
\* the sender, and none of the verses sent is in the day's entry
C34_Witness ==
  /\ ret.op = "verses"
  /\ log # <<>>
  /\ RefsOf(ret.verses) \cap BagToSet(getSentVersesToday(ret.user, todayDate)) = {}

\* C35: the refs a getVersesForUser call returned today are in the day's
\* ledger entry of the subscriber from the moment the send is pending on,
\* and they stay there when the send is rejected; so a later call of the
\* day returns none of them while a ref of its pool has not been returned.
ServedRecorded ==
  \A u \in DOMAIN served :
    served[u].date = todayDate =>
      served[u].refs \subseteq BagToSet(getSentVersesToday(u, todayDate))
C35_WritesPrecedeDelivery ==
  [][/\ ServedRecorded'
     /\ (ret'.op = "select" /\ ret'.status = "ok") =>
          (RefsOf(ret'.verses) \cap ServedOn(served, ret'.user, ret'.today) # {} =>
             UnseenCount(CandidatePool(ret'.topic),
                         ServedOn(served, ret'.user, ret'.today)) = 0)]_vars

\* a send to subscriber 1 was rejected, and the refs of the rejected message
\* are in the ledger
C35_Witness ==
  /\ \E T \in DOMAIN ticks : 1 \in ticks[T].failed
  /\ 1 \in DOMAIN served
  /\ served[1].date = todayDate
  /\ served[1].refs # {}
  /\ served[1].refs \subseteq BagToSet(getSentVersesToday(1, todayDate))

\* C36: a run of sendScheduledVerses that has ended has called
\* getVersesForUser for every subscriber it matched, also for those after a
\* subscriber whose selection raised an error.
C36_SelectionErrorIsolation ==
  \A T \in DOMAIN ticks :
    Ended(ticks[T]) =>
      \A j \in 1..Len(ticks[T].users) :
        ticks[T].users[j].user_id \in Range(ticks[T].selected)

\* C37: a getVersesForUser call removes no ref from the ledger entry of the
\* subscriber and day it writes to, and the pruning of its appends leaves
\* that entry in the ledger: after a call that returned picks the entry is
\* there and holds them.
C37_TodayOnlyGrows ==
  [][ret'.op = "select" =>
       /\ <<ret'.user, ret'.today>> \in DOMAIN log =>
            /\ <<ret'.user, ret'.today>> \in DOMAIN log'
            /\ BagToSet(log[<<ret'.user, ret'.today>>])
                  \subseteq BagToSet(log'[<<ret'.user, ret'.today>>])
       /\ ret'.verses # <<>> =>
            /\ <<ret'.user, ret'.today>> \in DOMAIN log'
            /\ RefsOf(ret'.verses) \subseteq BagToSet(log'[<<ret'.user, ret'.today>>])]_vars

\* a call has written to the day's entry in a ledger that an append of the
\* same day has pruned: the clock is past the horizon, the ledger holds no
\* entry older than the cutoff, and the day's entry holds what it held
C37_Witness ==
  /\ IsSelect
  /\ ret.verses # <<>>
  /\ ret.sentBefore # {}
  /\ cutoffStr > 0
  /\ \A k \in DOMAIN log : k[2] >= cutoffStr
  /\ ret.sentBefore \subseteq BagToSet(RetEntry)

\* C38 as claimed: a /settime whose slot name is none of morning, midday,
\* afternoon, evening or whose time is not two digits, a colon and two
\* digits, a /topic without an argument, and an updateUser call for an id
\* without a record leave the directory as it was; an accepted update
\* changes only the named field of the subscriber's record.
SlotNames == {n_morning, n_midday, n_afternoon, n_evening}
DigitChars == {Digits[i] : i \in 1..Len(Digits)}
IsClockText(t) ==
  /\ Len(t) = 5
  /\ {t[1], t[2], t[4], t[5]} \subseteq DigitChars
  /\ t[3] = ":"
IsUpdate(call) == call.op \in {"settime", "topic", "updateUser"}
Rejected(call) ==
  \/ /\ call.op = "settime"
     /\ toLowerCase(call.words[1]) \notin SlotNames \/ ~IsClockText(call.words[2])
  \/ call.op = "topic" /\ Trim(call.words[1]) = <<>>
  \/ call.op = "updateUser" /\ call.user \notin DOMAIN users
\* the field an accepted update names, and the value it gives
SlotText(f) ==
  IF f = "morning" THEN n_morning
  ELSE IF f = "midday" THEN n_midday
  ELSE IF f = "afternoon" THEN n_afternoon ELSE n_evening
NamedField(call) ==
  IF call.op = "settime"
  THEN CHOOSE f \in SlotFields : SlotText(f) = toLowerCase(call.words[1])
  ELSE "topic"
NamedValue(call) ==
  IF call.op = "settime" THEN call.words[2] ELSE toLowerCase(Trim(call.words[1]))
\* the directory `before` with the named field of the record of the call's
\* subscriber set
Updated(before, call) ==
  [u \in DOMAIN before |->
     IF u # call.user THEN before[u]
     ELSE [f \in ProfileFields |->
             IF f = NamedField(call) THEN NamedValue(call) ELSE before[u][f]]]
C38_RejectedLeaveDirectory ==
  [][IsUpdate(ret') =>
       IF Rejected(ret') THEN users' = users
       ELSE users' = Updated(users, ret')]_vars

\* C38, amended: every command first registers its sender, so a rejected
\* /settime or /topic leaves the directory as it was except that it holds a
\* record with the defaults for a sender who had none; an accepted one
\* changes, after that registration, only the named field of the sender's
\* record (the slot name is compared in lower case); updateUser for an id
\* without a record changes nothing.
Registered(call) ==
  IF call.op = "updateUser" \/ call.user \in DOMAIN users THEN users
  ELSE MapSet(users, call.user, Fresh(call.user, call.arg))
C38_RejectedOnlyRegister ==
  [][IsUpdate(ret') =>
       IF Rejected(ret') THEN users' = Registered(ret')
       ELSE users' = Updated(Registered(ret'), ret')]_vars

\* a /settime with the time 8:00 was rejected for a sender whose record,
\* created earlier and updated since, is as it was
C38_Witness ==
  /\ ret.op = "settime"
  /\ ret.words = <<n_morning, h_800>>
  /\ ret.user \in DOMAIN users
  /\ users[ret.user].registered_at # now
  /\ users[ret.user].topic = s_faith
  /\ users[ret.user].morning = h_1200

====
